---- MODULE Spec2Model ----
(***************************************************************************)
(* A model of libi2pd/Tunnel.cpp: the tunnel registries of class Tunnels,  *)
(* the build / build-response life cycle of class Tunnel, the maintenance  *)
(* sweeps, the dispatcher loop Tunnels::Run and the record layout written  *)
(* by Tunnel::Build.                                                       *)
(*                                                                         *)
(* Three specifications share the module:                                  *)
(*   Spec       the life cycle (registries, pending maps, lists, states)   *)
(*   SpecRun    one dispatcher thread and its producers                    *)
(*   SpecBuild  Tunnel::Build applied to every hop count and shuffle       *)
(***************************************************************************)
EXTENDS Integers, Sequences, FiniteSets, TLC

(***************************************************************************)
(* Bounds of the model.                                                    *)
(***************************************************************************)
\* Tunnel objects constructed (make_shared<...Tunnel>) in one behaviour.
MaxTunnels == 2
\* Tunnel objects a behaviour of SpecSweep may construct on top of these.
MoreTunnels == 1
\* Messages the producers put on the dispatcher's queue in one behaviour.
MaxPosted == 4
\* Messages and blocks handed to the zero-hop tunnels in one behaviour.
MaxSends == 3
\* Messages the queue holds at most while the producers of SpecStop go on.
MaxQueued == 2
\* The most messages one wake of Run handles before it stops refilling its
\* list (100 in Tunnel.h; scaled down so that wakes reach it).
MAX_TUNNEL_MSGS_BATCH_SIZE == 2
\* m_Config->GetRecordSize (): the bytes of one record of a build message,
\* scaled down.
RecordSize == 2
\* The highest slot of a build message a hop's record is in.
MaxRecordIndex == 2
\* The bits of the uint64_t of the clock and of the three last-run times,
\* scaled down.
ClockBits == 8

(***************************************************************************)
(* Program constants (declared in Tunnel.h, used in Tunnel.cpp).           *)
(***************************************************************************)
TUNNEL_CREATION_TIMEOUT == 30
TUNNEL_EXPIRATION_TIMEOUT == 660
TUNNEL_EXPIRATION_THRESHOLD == 60
TUNNEL_RECREATION_THRESHOLD == 90
TUNNEL_MANAGE_INTERVAL == 15
TUNNEL_POOLS_MANAGE_INTERVAL == 5
TUNNEL_MEMORY_POOL_MANAGE_INTERVAL == 120
STANDARD_NUM_RECORDS == 4
MAX_NUM_RECORDS == 8

(***************************************************************************)
(* Input domains.                                                          *)
(***************************************************************************)
\* 32-bit tunnel ids and reply-message ids are random; two values of each
\* are enough for every collision.  The id of an outbound tunnel is never
\* looked up (outbound tunnels are not in m_Tunnels): one value stands for it.
TunnelIDs == {1, 2}
OutboundTunnelIDs == {1}
ReplyMsgIDs == {1, 2}
\* NullIdent is a null identity pointer: a hop without ident, or no router
\* found by the netdb.
NullIdent == "null"
\* Hop chains the pool hands to CreateTunnel, in traversal order (one-hop
\* chains come from the fallbacks of ManageTunnels).
HopLists == {<<"A", "B">>}
\* Return codes of a build response record: 0 accepts, 30 declines.
RetCodes == {0, 30}
\* Readings of GetSecondsSinceEpoch.  Every handler that reads the clock may
\* read any of them, so the clock may also go backward.  Around a creation
\* at 1000 they give a fresh tunnel, a timed-out build and an expired
\* tunnel; a tunnel created at 1031 is close to its expiry at 1661.
\* Values of m_Rng (), which picks among the outbound tunnels.
RngValues == {0, 1}
ClockValues == {1000, 1031, 1661}
\* The readings at which the pool and the build handlers create tunnels.
CreationClock == {1000, 1031}
\* TunnelPool of a tunnel: "none", or "pool", the one pool of the model, which
\* is the caller of CreateInboundTunnel / CreateOutboundTunnel.

Obj == 1..(MaxTunnels + MoreTunnels)
NoTunnel == 0

Pending == "Pending"
BuildReplyReceived == "BuildReplyReceived"
BuildFailed == "BuildFailed"
Established == "Established"
Failed == "Failed"
Expiring == "Expiring"
TunnelStates == {Pending, BuildReplyReceived, BuildFailed, Established, Failed, Expiring}

VARIABLES
    \* ---- life cycle (class Tunnels and its Tunnel objects)
    tun,                          \* Obj -> the fields of each tunnel object
    m_Tunnels,                    \* dispatch registry: set of <<tunnelID, obj>>
    m_PendingInboundTunnels,      \* set of <<replyMsgID, obj>>
    m_PendingOutboundTunnels,     \* set of <<replyMsgID, obj>>
    m_InboundTunnels,             \* std::list, as a sequence of obj
    m_OutboundTunnels,            \* std::list, as a sequence of obj
    m_TotalNumSuccesiveTunnelCreations,
    m_TotalNumFailedTunnelCreations,
    m_ExploratoryPool,            \* TRUE once the exploratory pool exists
    poolActive,                   \* TunnelPool::IsActive of the model's pool
    poolNumHops,                  \* [inb, outb]: the pool's configured hop counts
    replyTunnel,                  \* tunnel returned by GetPendingTunnel, handler running
    \* ---- the dispatcher: Tunnels::Run and the producers of its queue
    m_Queue,                      \* the queue PostTunnelData puts messages on
    msgs,                         \* the list Run drains
    inLoop,                       \* TRUE inside the inner while of Run
    numMsgs, prevTunnelID, prevTunnel,   \* locals of one wake
    curTunnelID,                  \* the local tunnelID of Run
    numPosted,                    \* messages put so far: the next one's number
    numDrains,                    \* GetWholeQueue calls so far
    wakeMsgs,                     \* the messages this wake has taken from msgs
    lookups,                      \* tunnel ids this wake passed to GetTunnel
    flushes,                      \* tunnels this wake called FlushTunnelDataMsgs on
    unflushed,                    \* tunnels this wake handed a message since their last flush
    handled,                      \* messages handed to a tunnel's handler so far
    \* ---- one call of Tunnel::Build
    numHops,                      \* m_Config->GetNumHops ()
    built,                        \* TRUE once Build has written the message
    numRecords,                   \* the byte at the head of the payload
    recordIndicies,               \* the shuffled vector, indexed from 0
    recordIndex,                  \* hop (1..numHops) -> hop->recordIndex
    records,                      \* slot -> what was written to it, in order
    layers,                       \* slot -> the layer transforms on it, innermost first
    found,                        \* hop -> the layers it found on its slot
    peeled,                       \* "no", or what HandleTunnelBuildResponse's pass returned
    \* ---- the zero-hop tunnels' send paths
    m_NumReceivedBytes,           \* of the ZeroHopsInboundTunnel
    m_NumSentBytes,               \* of the ZeroHopsOutboundTunnel
    numSends,                     \* messages handed to the two tunnels so far
    counted,                      \* the messages added to a counter, in order
    delivered,                    \* the messages passed on, in order
    \* ---- Start, Stop and the outer loop of Run
    m_IsRunning,
    worker,                       \* where the worker thread is in Run
    stopper,                      \* where the caller of Stop is
    \* ---- the build response last handled, as received
    response,                     \* its tunnel, where it was rejected, what came of it
    \* ---- the maintenance schedule of Run (line 541 and lines 618-640)
    lastTs, lastPoolsTs, lastMemoryPoolTs,
    schedTs,                      \* the clock reading of the latest pass
    schedPrevTs,                  \* the clock reading of the pass before it
    wasOnline,                    \* IsOnline () at the latest pass
    ran,                          \* the tasks the latest pass ran
    \* ---- the build messages the transport dropped
    dropped                       \* <<obj, the state the closure found it in>>

lifeVars == <<tun, m_Tunnels, m_PendingInboundTunnels, m_PendingOutboundTunnels,
              m_InboundTunnels, m_OutboundTunnels,
              m_TotalNumSuccesiveTunnelCreations, m_TotalNumFailedTunnelCreations,
              m_ExploratoryPool, poolActive, poolNumHops, replyTunnel>>

runVars == <<m_Queue, msgs, inLoop, numMsgs, prevTunnelID, curTunnelID, prevTunnel,
             numPosted, numDrains, wakeMsgs, lookups, flushes, unflushed, handled>>

buildVars == <<numHops, built, numRecords, recordIndicies, recordIndex, records,
               layers, found, peeled>>

sendVars == <<m_NumReceivedBytes, m_NumSentBytes, numSends, counted, delivered>>

stopVars == <<m_IsRunning, worker, stopper>>

respVars == <<response>>

schedVars == <<lastTs, lastPoolsTs, lastMemoryPoolTs, schedTs, schedPrevTs, wasOnline, ran>>

dropVars == <<dropped>>

restVars == <<sendVars, stopVars, respVars, schedVars, dropVars>>

vars == <<lifeVars, runVars, buildVars, restVars>>

(***************************************************************************)
(* Sequences.                                                              *)
(***************************************************************************)
Range(s) == {s[i] : i \in 1..Len(s)}

Reverse(s) == [i \in 1..Len(s) |-> s[Len(s) + 1 - i]]

Remove(s, x) == SelectSeq(s, LAMBDA y : y # x)

RECURSIVE SetToSeq(_)
\* The elements of a set of <<key, obj>> pairs in key order: std::map iteration.
SetToSeq(S) ==
    IF S = {} THEN <<>>
    ELSE LET p == CHOOSE q \in S : \A r \in S : q[1] < r[1] \/ (q[1] = r[1] /\ q[2] <= r[2])
         IN <<p>> \o SetToSeq(S \ {p})

(***************************************************************************)
(* Tunnel objects.                                                         *)
(***************************************************************************)
NoObject ==
    [kind |-> "none", id |-> 0, state |-> Pending, created |-> 0, pool |-> "none",
     hasConfig |-> FALSE, config |-> <<>>, hops |-> <<>>, onDrop |-> FALSE,
     recreated |-> FALSE]

\* Tunnel::Tunnel: the id comes from the config, the state is Pending; the
\* creation time is read from the clock by the TunnelBase constructor.
NewTunnel(kind, id, pool, config, ts) ==
    [kind |-> kind, id |-> id, state |-> Pending, created |-> ts, pool |-> pool,
     hasConfig |-> TRUE, config |-> config, hops |-> <<>>, onDrop |-> FALSE,
     recreated |-> FALSE]

IsInbound(o) == o.kind \in {"inbound", "zeroInbound"}
IsOutbound(o) == o.kind \in {"outbound", "zeroOutbound"}

\* Tunnel::IsEstablished, Tunnel::IsFailed
IsEstablished(o) == o.state = Established
IsFailed(o) == o.state = Failed

\* Tunnel::GetInvertedPeers: the idents of m_Hops, which are in inverted order.
GetInvertedPeers(o) == o.hops

\* Tunnel::GetPeers
GetPeers(o) == Reverse(GetInvertedPeers(o))

\* Tunnel::GetNumHops
GetNumHops(o) == Len(o.hops)

\* No build response handled yet.
NoResponse == [t |-> NoTunnel, at |-> 0, codes |-> <<>>, ret |-> FALSE, ev |-> <<>>]

(***************************************************************************)
(* The state the handlers of class Tunnels work on, as one record, so that *)
(* a handler is an operator from record to record and a handler calling    *)
(* another is an application.  ret is the value the last call returned.    *)
(***************************************************************************)
World ==
    [tun |-> tun, reg |-> m_Tunnels,
     pin |-> m_PendingInboundTunnels, pout |-> m_PendingOutboundTunnels,
     inb |-> m_InboundTunnels, outb |-> m_OutboundTunnels,
     succ |-> m_TotalNumSuccesiveTunnelCreations,
     fail |-> m_TotalNumFailedTunnelCreations,
     expl |-> m_ExploratoryPool, active |-> poolActive, nhops |-> poolNumHops,
     ev |-> <<>>, calls |-> <<>>, ret |-> FALSE,
     toRecreate |-> <<>>, ok |-> TRUE]

\* The objects not constructed yet, and the next one make_shared returns.
\* With none left the handler cannot run in the model: ok turns FALSE and
\* the step is not taken.
FreeObjs(w) == {t \in Obj : w.tun[t].kind = "none"}
NextObj(w) ==
    IF FreeObjs(w) = {} THEN MaxTunnels
    ELSE CHOOSE t \in FreeObjs(w) : \A u \in FreeObjs(w) : t <= u
Construct(w, t, o) == [w EXCEPT !.tun[t] = o, !.ok = w.ok /\ FreeObjs(w) # {}]

SetStateOf(w, t, s) == [w EXCEPT !.tun[t].state = s]

(***************************************************************************)
(* The dispatch registry m_Tunnels (std::map tunnelID -> TunnelBase).      *)
(***************************************************************************)
\* std::map::find
MapFind(m, key) ==
    IF \E p \in m : p[1] = key THEN (CHOOSE p \in m : p[1] = key)[2] ELSE NoTunnel

\* std::map::emplace: inserts only when the key is absent.
MapEmplace(m, key, t) ==
    IF \E p \in m : p[1] = key THEN m ELSE m \cup {<<key, t>>}

\* std::map::operator[] followed by assignment: the last writer wins.
MapAssign(m, key, t) == {p \in m : p[1] # key} \cup {<<key, t>>}

\* std::map::erase (key)
MapErase(m, key) == {p \in m : p[1] # key}

\* Tunnels::GetTunnel
GetTunnel(w, tunnelID) == MapFind(w.reg, tunnelID)

\* A slip AddTunnel could have: insert_or_assign in place of emplace.
AddTunnelAssigning(w, t) ==
    IF t = NoTunnel THEN [w EXCEPT !.ret = FALSE]
    ELSE [w EXCEPT !.reg = w.reg \cup {<<w.tun[t].id, t>>}, !.ret = TRUE]

\* Tunnels::AddTunnel
AddTunnel(w, t) ==
    IF t = NoTunnel THEN [w EXCEPT !.ret = FALSE]
    ELSE [w EXCEPT !.reg = MapEmplace(w.reg, w.tun[t].id, t),
                   !.ret = ~(\E p \in w.reg : p[1] = w.tun[t].id)]

\* Tunnels::RemoveTunnel
RemoveTunnel(w, tunnelID) == [w EXCEPT !.reg = MapErase(w.reg, tunnelID)]

(***************************************************************************)
(* Pending maps and CreateTunnel.                                          *)
(***************************************************************************)
PendingMap(w, kind) == IF kind = "inbound" THEN w.pin ELSE w.pout

SetPendingMap(w, kind, m) ==
    IF kind = "inbound" THEN [w EXCEPT !.pin = m] ELSE [w EXCEPT !.pout = m]

\* A slip AddPendingTunnel could have: emplace, which keeps the first writer.
AddPendingTunnelKeeping(w, replyMsgID, t) ==
    SetPendingMap(w, w.tun[t].kind, MapEmplace(PendingMap(w, w.tun[t].kind), replyMsgID, t))

\* Tunnels::AddPendingTunnel (both overloads): m_Pending...Tunnels[replyMsgID] = tunnel
AddPendingTunnel(w, replyMsgID, t) ==
    SetPendingMap(w, w.tun[t].kind, MapAssign(PendingMap(w, w.tun[t].kind), replyMsgID, t))

\* Tunnel::Build, as far as the tunnel object goes: the message carries an
\* onDrop closure holding the tunnel, and is handed to the transport or to
\* the outbound tunnel.  (The records it writes are modelled by DoBuild.)
Build(w, t) == [w EXCEPT !.tun[t].onDrop = TRUE]

\* Tunnels::CreateTunnel<TTunnel>
CreateTunnel(w, kind, config, pool, replyMsgID, tunnelID, ts) ==
    LET t == NextObj(w)
        w1 == Construct(w, t, NewTunnel(kind, tunnelID, pool, config, ts))
        w2 == AddPendingTunnel(w1, replyMsgID, t)
    IN [Build(w2, t) EXCEPT !.ret = t]

\* A slip: the entry returned whatever its tunnel's state.
GetPendingTunnelAnyState(w, replyMsgID, kind) ==
    LET t == MapFind(PendingMap(w, kind), replyMsgID)
    IN IF t # NoTunnel
       THEN [SetStateOf(w, t, BuildReplyReceived) EXCEPT !.ret = t]
       ELSE [w EXCEPT !.ret = NoTunnel]

\* Tunnels::GetPendingTunnel<TTunnel>; ret is the tunnel found, or NoTunnel.
GetPendingTunnel(w, replyMsgID, kind) ==
    LET t == MapFind(PendingMap(w, kind), replyMsgID)
    IN IF t # NoTunnel /\ w.tun[t].state = Pending
       THEN [SetStateOf(w, t, BuildReplyReceived) EXCEPT !.ret = t]
       ELSE [w EXCEPT !.ret = NoTunnel]

(***************************************************************************)
(* Build responses.  A response is [ok, codes]: ok says that the record    *)
(* count and length checks and every hop's DecryptBuildResponseRecord      *)
(* passed (lines 133-173), codes are the hops' return codes in traversal   *)
(* order.                                                                  *)
(***************************************************************************)
Responses(n) ==
    {[ok |-> FALSE, codes |-> <<>>]} \cup {[ok |-> TRUE, codes |-> c] : c \in [1..n -> RetCodes]}

\* A slip: the profiles updated while walking from the last hop to the first.
BuildResponseEventsInverted(t, config, codes) ==
    LET idx == SelectSeq([i \in 1..Len(config) |-> Len(config) + 1 - i],
                         LAMBDA i : config[i] # NullIdent)
    IN [k \in 1..Len(idx) |-> <<"tunnelBuildResponse", t, config[idx[k]], codes[idx[k]]>>]

\* The UpdateRouterProfile calls of lines 178-193, first hop to last.
BuildResponseEvents(t, config, codes) ==
    LET ev(i) == <<"tunnelBuildResponse", t, config[i], codes[i]>>
        idx == SelectSeq([i \in 1..Len(config) |-> i], LAMBDA i : config[i] # NullIdent)
    IN [k \in 1..Len(idx) |-> ev(idx[k])]

\* A slip: m_Hops filled while walking from the first hop to the last.
CreateHopsInTraversalOrder(config) == config

\* Lines 197-207: m_Hops[i] takes the hops from GetLastHop () back to the first.
CreateHops(config) == [i \in 1..Len(config) |-> config[Len(config) + 1 - i]]

\* A slip: established as soon as one hop accepts.
HandleTunnelBuildResponseAnyHop(w, t, resp) ==
    IF ~resp.ok THEN [w EXCEPT !.ret = FALSE]
    ELSE LET config == w.tun[t].config
             established == \E i \in 1..Len(config) : resp.codes[i] = 0
             w1 == [w EXCEPT !.ev = w.ev \o BuildResponseEvents(t, config, resp.codes)]
         IN IF established
            THEN [w1 EXCEPT !.tun[t].hops = CreateHops(config), !.tun[t].hasConfig = FALSE,
                            !.tun[t].config = <<>>, !.tun[t].state = Established,
                            !.ret = TRUE]
            ELSE [w1 EXCEPT !.ret = FALSE]

\* Tunnel::HandleTunnelBuildResponse
HandleTunnelBuildResponse(w, t, resp) ==
    IF ~resp.ok THEN [w EXCEPT !.ret = FALSE]
    ELSE LET config == w.tun[t].config
             established == \A i \in 1..Len(config) : resp.codes[i] = 0
             w1 == [w EXCEPT !.ev = w.ev \o BuildResponseEvents(t, config, resp.codes)]
         IN IF established
            THEN [w1 EXCEPT !.tun[t].hops = CreateHops(config), !.tun[t].hasConfig = FALSE,
                            !.tun[t].config = <<>>, !.tun[t].state = Established,
                            !.ret = TRUE]
            ELSE [w1 EXCEPT !.ret = FALSE]

\* Tunnels::AddOutboundTunnel
AddOutboundTunnel(w, t) ==
    LET w1 == [w EXCEPT !.outb = Append(w.outb, t)]
    IN IF w.tun[t].pool # "none" /\ w.active
       THEN [w1 EXCEPT !.calls = Append(w.calls, <<"TunnelCreated", t>>)]
       ELSE [w1 EXCEPT !.tun[t].pool = "none"]

RECURSIVE NextOutboundLoop(_, _, _, _, _)
\* The loop of GetNextOutboundTunnel (lines 472-480).
NextOutboundLoop(list, tunOf, ind, tunnel, i) ==
    IF list = <<>> THEN tunnel
    ELSE LET it == Head(list)
             est == IsEstablished(tunOf[it])
             tunnel1 == IF est THEN it ELSE tunnel
             i1 == IF est THEN i + 1 ELSE i
         IN IF i1 > ind /\ tunnel1 # NoTunnel THEN tunnel1
            ELSE NextOutboundLoop(Tail(list), tunOf, ind, tunnel1, i1)

\* Tunnels::GetNextOutboundTunnel; rnd is the value of m_Rng ().
GetNextOutboundTunnel(list, tunOf, rnd) ==
    IF list = <<>> THEN NoTunnel
    ELSE NextOutboundLoop(list, tunOf, rnd % Len(list), NoTunnel, 0)

\* The build message of tunnel t leaves through outboundTunnel (lines
\* 101-112), or straight through the transports when there is none.
SendBuild(w, t, outboundTunnel) ==
    [w EXCEPT !.calls = Append(w.calls, <<"SendBuild", t, outboundTunnel>>)]

\* A slip: the symmetric tunnel built over the peers in the inbound order.
AddInboundTunnelSameOrder(w, t, replyMsgID, tunnelID, ts, rnd) ==
    LET w1 == AddTunnel(w, t)
    IN IF w1.ret
       THEN LET w2 == [w1 EXCEPT !.inb = Append(w1.inb, t)]
            IN IF w2.tun[t].pool = "none"
               THEN LET w3 == CreateTunnel(w2, "outbound", GetPeers(w2.tun[t]),
                                           "none", replyMsgID, tunnelID, ts)
                    IN SendBuild(w3, w3.ret, GetNextOutboundTunnel(w2.outb, w2.tun, rnd))
               ELSE IF w2.active
                    THEN [w2 EXCEPT !.calls = Append(w2.calls, <<"TunnelCreated", t>>)]
                    ELSE [w2 EXCEPT !.tun[t].pool = "none"]
       ELSE w1

\* Tunnels::AddInboundTunnel; replyMsgID and tunnelID are the random ids of
\* the symmetric outbound tunnel it may build, rnd the value of m_Rng ().
AddInboundTunnel(w, t, replyMsgID, tunnelID, ts, rnd) ==
    LET w1 == AddTunnel(w, t)
    IN IF w1.ret
       THEN LET w2 == [w1 EXCEPT !.inb = Append(w1.inb, t)]
            IN IF w2.tun[t].pool = "none"
               THEN LET w3 == CreateTunnel(w2, "outbound", GetInvertedPeers(w2.tun[t]),
                                           "none", replyMsgID, tunnelID, ts)
                    IN SendBuild(w3, w3.ret, GetNextOutboundTunnel(w2.outb, w2.tun, rnd))
               ELSE IF w2.active
                    THEN [w2 EXCEPT !.calls = Append(w2.calls, <<"TunnelCreated", t>>)]
                    ELSE [w2 EXCEPT !.tun[t].pool = "none"]
       ELSE w1

\* Tunnels::CreateZeroHopsInboundTunnel
CreateZeroHopsInboundTunnel(w, pool, tunnelID, ts) ==
    LET t == NextObj(w)
        o == [NewTunnel("zeroInbound", tunnelID, pool, <<>>, ts) EXCEPT !.state = Established]
        w1 == [Construct(w, t, o) EXCEPT !.inb = Append(w.inb, t)]
    IN [AddTunnel(w1, t) EXCEPT !.ret = t]

\* Tunnels::CreateZeroHopsOutboundTunnel
CreateZeroHopsOutboundTunnel(w, pool, tunnelID, ts) ==
    LET t == NextObj(w)
        o == [NewTunnel("zeroOutbound", tunnelID, pool, <<>>, ts) EXCEPT !.state = Established]
    IN [Construct(w, t, o) EXCEPT !.outb = Append(w.outb, t), !.ret = t]

\* The second half of HandleShortTunnelBuildMsg / HandleVariableTunnelBuildMsg
\* (inbound) and HandleTunnelBuildReplyMsg (outbound), once GetPendingTunnel
\* has returned the tunnel.
HandleBuildResponseFor(w, t, resp, replyMsgID, tunnelID, ts, rnd) ==
    LET w1 == HandleTunnelBuildResponse(w, t, resp)
    IN IF w1.ret
       THEN LET w2 == SetStateOf(w1, t, Established)
            IN IF w2.tun[t].kind = "inbound"
               THEN AddInboundTunnel(w2, t, replyMsgID, tunnelID, ts, rnd)
               ELSE AddOutboundTunnel(w2, t)
       ELSE SetStateOf(w1, t, BuildFailed)

(***************************************************************************)
(* Maintenance: Tunnels::ManageTunnels and what it calls.                  *)
(***************************************************************************)
\* The pair of comparisons of every deadline check: the deadline has passed,
\* or the clock went backward by more than the span.
DeadlinePassed(ts, start, span) == ts > start + span \/ ts + span < start

\* Tunnels::FailedTunnelCreation / SuccesiveTunnelCreation (Tunnel.h): the
\* two counters of the constructor's initialiser list.
FailedTunnelCreation(w) == [w EXCEPT !.fail = w.fail + 1]
SuccesiveTunnelCreation(w) == [w EXCEPT !.succ = w.succ + 1]

\* The TunnelNonReplied profile updates of lines 781-795.
NonRepliedEvents(t, o) ==
    IF ~o.hasConfig THEN <<>>
    ELSE LET idx == SelectSeq([i \in 1..Len(o.config) |-> i],
                              LAMBDA i : o.config[i] # NullIdent)
         IN [k \in 1..Len(idx) |-> <<"tunnelNonReplied", t, o.config[idx[k]], 0>>]

\* it = pendingTunnels.erase (it)
ErasePending(w, kind, it) == SetPendingMap(w, kind, PendingMap(w, kind) \ {it})

\* A slip the sweep could have: a timed-out build counted as a success.
PendingEntryMiscounted(w, kind, it, ts) ==
    LET o == w.tun[it[2]]
    IN IF o.state = Pending /\ DeadlinePassed(ts, o.created, TUNNEL_CREATION_TIMEOUT)
       THEN SuccesiveTunnelCreation(ErasePending(w, kind, it))
       ELSE w

\* A slip the sweep could have: no case for BuildReplyReceived, which then
\* falls to the default.
PendingEntryErasingReplied(w, kind, it, ts) ==
    LET t == it[2]
        o == w.tun[t]
    IN CASE o.state = Pending ->
              IF DeadlinePassed(ts, o.created, TUNNEL_CREATION_TIMEOUT)
              THEN FailedTunnelCreation(
                     ErasePending([w EXCEPT !.ev = w.ev \o NonRepliedEvents(t, o)],
                                  kind, it))
              ELSE w
         [] o.state = BuildFailed ->
              FailedTunnelCreation(ErasePending(w, kind, it))
         [] OTHER ->
              SuccesiveTunnelCreation(ErasePending(w, kind, it))

\* One iteration of the loop of ManagePendingTunnels (lines 772-816).
PendingEntry(w, kind, it, ts) ==
    LET t == it[2]
        o == w.tun[t]
    IN CASE o.state = Pending ->
              IF DeadlinePassed(ts, o.created, TUNNEL_CREATION_TIMEOUT)
              THEN FailedTunnelCreation(
                     ErasePending([w EXCEPT !.ev = w.ev \o NonRepliedEvents(t, o)],
                                  kind, it))
              ELSE w
         [] o.state = BuildFailed ->
              FailedTunnelCreation(ErasePending(w, kind, it))
         [] o.state = BuildReplyReceived -> w
         [] OTHER ->
              SuccesiveTunnelCreation(ErasePending(w, kind, it))

RECURSIVE PendingLoop(_, _, _, _)
PendingLoop(w, kind, entries, ts) ==
    IF entries = <<>> THEN w
    ELSE PendingLoop(PendingEntry(w, kind, Head(entries), ts), kind, Tail(entries), ts)

\* Tunnels::ManagePendingTunnels (PendingTunnels&, ts)
ManagePendingMap(w, kind, ts) == PendingLoop(w, kind, SetToSeq(PendingMap(w, kind)), ts)

\* Tunnels::ManagePendingTunnels (ts)
ManagePendingTunnels(w, ts) ==
    ManagePendingMap(ManagePendingMap(w, "inbound", ts), "outbound", ts)

\* A slip: the comparison of the hop counts left out.
NearExpiryAnyHops(w, t, ts, poolHops) ==
    LET o == w.tun[t]
        w1 == IF /\ ~o.recreated
                 /\ ts + TUNNEL_RECREATION_THRESHOLD > o.created + TUNNEL_EXPIRATION_TIMEOUT
                 /\ o.pool # "none"
              THEN [w EXCEPT !.toRecreate = Append(w.toRecreate, t)]
              ELSE w
    IN IF ts + TUNNEL_EXPIRATION_THRESHOLD > o.created + TUNNEL_EXPIRATION_TIMEOUT
       THEN SetStateOf(w1, t, Expiring)
       ELSE w1

\* Lines 839-847 and 888-897: an established tunnel close to its expiry is
\* queued for recreation and marked Expiring.
NearExpiry(w, t, ts, poolHops) ==
    LET o == w.tun[t]
        w1 == IF /\ ~o.recreated
                 /\ ts + TUNNEL_RECREATION_THRESHOLD > o.created + TUNNEL_EXPIRATION_TIMEOUT
                 /\ o.pool # "none"
                 /\ GetNumHops(o) = poolHops
              THEN [w EXCEPT !.toRecreate = Append(w.toRecreate, t)]
              ELSE w
    IN IF ts + TUNNEL_EXPIRATION_THRESHOLD > o.created + TUNNEL_EXPIRATION_TIMEOUT
       THEN SetStateOf(w1, t, Expiring)
       ELSE w1

\* pool->TunnelExpired (tunnel), when the tunnel has a pool
NotifyExpired(w, t) ==
    IF w.tun[t].pool # "none"
    THEN [w EXCEPT !.calls = Append(w.calls, <<"TunnelExpired", t>>)]
    ELSE w

\* One iteration of the loop of ManageInboundTunnels (lines 873-902).
InboundEntry(w, t, ts) ==
    LET o == w.tun[t]
    IN IF IsFailed(o) \/ DeadlinePassed(ts, o.created, TUNNEL_EXPIRATION_TIMEOUT)
       THEN [RemoveTunnel(NotifyExpired(w, t), o.id) EXCEPT !.inb = Remove(w.inb, t)]
       ELSE IF IsEstablished(o) THEN NearExpiry(w, t, ts, w.nhops.inb) ELSE w

\* One iteration of the loop of ManageOutboundTunnels (lines 824-850).
OutboundEntry(w, t, ts) ==
    LET o == w.tun[t]
    IN IF IsFailed(o) \/ DeadlinePassed(ts, o.created, TUNNEL_EXPIRATION_TIMEOUT)
       THEN [NotifyExpired(w, t) EXCEPT !.outb = Remove(w.outb, t)]
       ELSE IF IsEstablished(o) THEN NearExpiry(w, t, ts, w.nhops.outb) ELSE w

RECURSIVE InboundLoop(_, _, _)
InboundLoop(w, list, ts) ==
    IF list = <<>> THEN w
    ELSE InboundLoop(InboundEntry(w, Head(list), ts), Tail(list), ts)

RECURSIVE OutboundLoop(_, _, _)
OutboundLoop(w, list, ts) ==
    IF list = <<>> THEN w
    ELSE OutboundLoop(OutboundEntry(w, Head(list), ts), Tail(list), ts)

RECURSIVE NextInboundLoopAnyState(_, _, _, _, _)
\* A slip: the loop without the IsEstablished test of line 457.
NextInboundLoopAnyState(list, tunOf, bytes, tunnel, minReceived) ==
    IF list = <<>> THEN tunnel
    ELSE LET it == Head(list)
         IN IF tunnel = NoTunnel \/ bytes[it] < minReceived
            THEN NextInboundLoopAnyState(Tail(list), tunOf, bytes, it, bytes[it])
            ELSE NextInboundLoopAnyState(Tail(list), tunOf, bytes, tunnel, minReceived)

GetNextInboundTunnelAnyState(list, tunOf, bytes) ==
    NextInboundLoopAnyState(list, tunOf, bytes, NoTunnel, 0)

RECURSIVE NextInboundLoop(_, _, _, _, _)
\* The loop of GetNextInboundTunnel (lines 455-463).
NextInboundLoop(list, tunOf, bytes, tunnel, minReceived) ==
    IF list = <<>> THEN tunnel
    ELSE LET it == Head(list)
         IN IF ~IsEstablished(tunOf[it])
            THEN NextInboundLoop(Tail(list), tunOf, bytes, tunnel, minReceived)
            ELSE IF tunnel = NoTunnel \/ bytes[it] < minReceived
                 THEN NextInboundLoop(Tail(list), tunOf, bytes, it, bytes[it])
                 ELSE NextInboundLoop(Tail(list), tunOf, bytes, tunnel, minReceived)

\* Tunnels::GetNextInboundTunnel
GetNextInboundTunnel(list, tunOf, bytes) == NextInboundLoop(list, tunOf, bytes, NoTunnel, 0)

\* Received-byte counts are not part of the life cycle: all equal here.
NoBytes == [t \in Obj |-> 0]

\* What the netdb and the random generators hand to one fallback creation:
\* the router GetRandomRouter returns (NullIdent: none) and the ids drawn.
NoInput == [router |-> NullIdent, replyMsgID |-> 0, tunnelID |-> 0, tunnelID2 |-> 0]
FallbackRouters == {NullIdent, "A"}

\* A slip: the return of line 919 left out, so that the run that created the
\* zero-hop tunnels goes on to the one-hop build.
InboundFallbackFallingThrough(w, ts, in) ==
    LET w1 == CreateZeroHopsInboundTunnel(w, "none", in.tunnelID, ts)
        w2 == CreateZeroHopsOutboundTunnel(w1, "none", in.tunnelID2, ts)
        w3 == IF w.inb # <<>> THEN w
              ELSE IF ~w2.expl
                   THEN [w2 EXCEPT !.expl = TRUE,
                                   !.calls = Append(w2.calls, <<"CreateTunnelPool", NoTunnel>>)]
                   ELSE w2
    IN IF w3.outb = <<>> \/ Len(w3.inb) < 3
       THEN IF in.router = NullIdent THEN w3
            ELSE CreateTunnel(w3, "inbound", <<in.router>>, "none",
                              in.replyMsgID, in.tunnelID, ts)
       ELSE w3

\* The end of ManageInboundTunnels (lines 905-937), after the loop.
InboundFallback(w, ts, in) ==
    IF w.inb = <<>>
    THEN LET w1 == CreateZeroHopsInboundTunnel(w, "none", in.tunnelID, ts)
             w2 == CreateZeroHopsOutboundTunnel(w1, "none", in.tunnelID2, ts)
         IN IF ~w2.expl
            THEN [w2 EXCEPT !.expl = TRUE,
                            !.calls = Append(w2.calls, <<"CreateTunnelPool", NoTunnel>>)]
            ELSE w2
    ELSE IF w.outb = <<>> \/ Len(w.inb) < 3
         THEN IF in.router = NullIdent THEN w
              ELSE CreateTunnel(w, "inbound", <<in.router>>, "none",
                                in.replyMsgID, in.tunnelID, ts)
         ELSE w

\* The inputs that matter to InboundFallback in w.
InboundInputs(w) ==
    IF w.inb = <<>>
    THEN {[NoInput EXCEPT !.tunnelID = a, !.tunnelID2 = b] :
            a \in TunnelIDs, b \in OutboundTunnelIDs}
    ELSE IF w.outb = <<>> \/ Len(w.inb) < 3
         THEN {NoInput} \cup
              {[router |-> r, replyMsgID |-> m, tunnelID |-> a, tunnelID2 |-> 0] :
                 r \in FallbackRouters \ {NullIdent}, m \in ReplyMsgIDs, a \in TunnelIDs}
         ELSE {NoInput}

\* The end of ManageOutboundTunnels (lines 853-866), after the loop.
OutboundFallback(w, ts, in) ==
    IF Len(w.outb) < 3
    THEN LET inboundTunnel == GetNextInboundTunnel(w.inb, w.tun, NoBytes)
         IN IF inboundTunnel = NoTunnel \/ in.router = NullIdent THEN w
            ELSE CreateTunnel(w, "outbound", <<in.router>>, "none",
                              in.replyMsgID, in.tunnelID, ts)
    ELSE w

\* The inputs that matter to OutboundFallback in w.
OutboundInputs(w) ==
    IF Len(w.outb) < 3 /\ GetNextInboundTunnel(w.inb, w.tun, NoBytes) # NoTunnel
    THEN {NoInput} \cup
         {[router |-> r, replyMsgID |-> m, tunnelID |-> a, tunnelID2 |-> 0] :
            r \in FallbackRouters \ {NullIdent}, m \in ReplyMsgIDs, a \in OutboundTunnelIDs}
    ELSE {NoInput}

\* Tunnels::ManageInboundTunnels
ManageInboundTunnels(w, ts, in) == InboundFallback(InboundLoop(w, w.inb, ts), ts, in)

\* Tunnels::ManageOutboundTunnels
ManageOutboundTunnels(w, ts, in) == OutboundFallback(OutboundLoop(w, w.outb, ts), ts, in)

\* InboundTunnel::Recreate / OutboundTunnel::Recreate
Recreate(w, t) ==
    IF ~w.tun[t].recreated /\ w.tun[t].pool # "none"
    THEN [w EXCEPT !.tun[t].recreated = TRUE,
                   !.calls = Append(w.calls,
                       <<IF IsInbound(w.tun[t]) THEN "RecreateInboundTunnel"
                         ELSE "RecreateOutboundTunnel", t>>)]
    ELSE w

RECURSIVE RecreateLoop(_, _)
\* Lines 751-757.  The shuffle only permutes the order of the calls.
RecreateLoop(w, list) ==
    IF list = <<>> THEN w ELSE RecreateLoop(Recreate(w, Head(list)), Tail(list))

\* Tunnels::ManageTunnels
ManageTunnels(w, ts, in1, in2) ==
    LET w1 == ManagePendingTunnels(w, ts)
        w2 == ManageInboundTunnels(w1, ts, in1)
        w3 == ManageOutboundTunnels(w2, ts, in2)
    IN RecreateLoop(w3, w3.toRecreate)

\* A slip: the test for Expiring of line 268 left out.
HandleTunnelDataMsgReviving(w, t) ==
    IF IsInbound(w.tun[t]) /\ ~IsEstablished(w.tun[t])
    THEN SetStateOf(w, t, Established)
    ELSE w

\* InboundTunnel::HandleTunnelDataMsg / OutboundTunnel::HandleTunnelDataMsg,
\* as far as the tunnel's state goes.
HandleTunnelDataMsg(w, t) ==
    IF IsInbound(w.tun[t]) /\ ~IsEstablished(w.tun[t]) /\ w.tun[t].state # Expiring
    THEN SetStateOf(w, t, Established)
    ELSE w

(***************************************************************************)
(* Specification Spec: the life cycle.                                     *)
(***************************************************************************)
\* shared_ptr ownership: a tunnel object lives while a registry, a pending
\* map, a list, the onDrop closure of its build message or the running
\* handler holds it.
Referenced(w, t, running) ==
    \/ \E p \in w.reg \cup w.pin \cup w.pout : p[2] = t
    \/ t \in Range(w.inb) \cup Range(w.outb)
    \/ w.tun[t].onDrop
    \/ t = running

Destroyed == [NoObject EXCEPT !.kind = "destroyed"]

\* The step's result becomes the next state of the tunnels, maps, lists and
\* counters; objects nobody holds are destroyed.
CommitLife(w, running) ==
    /\ w.ok
    /\ tun' = [t \in Obj |->
                 IF w.tun[t].kind \in {"none", "absent"} \/ Referenced(w, t, running)
                 THEN w.tun[t] ELSE Destroyed]
    /\ m_Tunnels' = w.reg
    /\ m_PendingInboundTunnels' = w.pin
    /\ m_PendingOutboundTunnels' = w.pout
    /\ m_InboundTunnels' = w.inb
    /\ m_OutboundTunnels' = w.outb
    /\ m_TotalNumSuccesiveTunnelCreations' = w.succ
    /\ m_TotalNumFailedTunnelCreations' = w.fail
    /\ m_ExploratoryPool' = w.expl
    /\ poolActive' = w.active
    /\ poolNumHops' = w.nhops
    /\ replyTunnel' = running

\* The same for a step that touches nothing else.
Commit(w, running) ==
    /\ CommitLife(w, running)
    /\ UNCHANGED <<runVars, buildVars, restVars>>

\* The dispatcher before its first wake.
InitRun ==
    /\ m_Queue = <<>> /\ msgs = <<>> /\ inLoop = FALSE
    /\ numMsgs = 0 /\ prevTunnelID = 0 /\ curTunnelID = 0 /\ prevTunnel = NoTunnel
    /\ numPosted = 0 /\ numDrains = 0
    /\ wakeMsgs = <<>> /\ lookups = <<>> /\ flushes = <<>> /\ unflushed = {}
    /\ handled = <<>>

\* The zero-hop tunnels as constructed (lines 299-303, 364-368), and the
\* dispatcher after Start (lines 516-521): the worker at the head of Run's
\* outer loop, nobody in Stop.
InitRest ==
    /\ m_NumReceivedBytes = 0 /\ m_NumSentBytes = 0
    /\ numSends = 0 /\ counted = <<>> /\ delivered = <<>>
    /\ m_IsRunning = TRUE /\ worker = "check" /\ stopper = "idle"
    /\ response = NoResponse
    /\ lastTs = 0 /\ lastPoolsTs = 0 /\ lastMemoryPoolTs = 0
    /\ schedTs = 0 /\ schedPrevTs = 0 /\ wasOnline = FALSE /\ ran = {}
    /\ dropped = {}

\* No build message written yet, for a config of n hops.
InitBuild(n) ==
    /\ numHops = n /\ built = FALSE /\ numRecords = 0
    /\ recordIndicies = <<>> /\ recordIndex = <<>> /\ records = <<>>
    /\ layers = <<>> /\ found = <<>> /\ peeled = "no"

\* Tunnels::Tunnels, with the given tunnel objects already registered.
InitLifeWith(objects, registry) ==
    /\ tun = objects
    /\ m_Tunnels = registry
    /\ m_PendingInboundTunnels = {}
    /\ m_PendingOutboundTunnels = {}
    /\ m_InboundTunnels = <<>>
    /\ m_OutboundTunnels = <<>>
    /\ m_TotalNumSuccesiveTunnelCreations = 0
    /\ m_TotalNumFailedTunnelCreations = 0
    /\ m_ExploratoryPool = FALSE
    /\ poolActive = TRUE
    /\ poolNumHops = [inb |-> 2, outb |-> 1]
    /\ replyTunnel = NoTunnel

\* Of the objects, the first n can be constructed; the others are absent
\* from the behaviour.
Objects(n) ==
    [t \in Obj |-> IF t <= n THEN NoObject ELSE [NoObject EXCEPT !.kind = "absent"]]

InitLife == InitLifeWith(Objects(MaxTunnels), {})

Init == InitLife /\ InitRun /\ InitBuild(0) /\ InitRest

\* The pool starts a build: CreateInboundTunnel / CreateOutboundTunnel with
\* a config.
DoCreateTunnel(kind, config, replyMsgID, tunnelID, ts) ==
    /\ replyTunnel = NoTunnel
    /\ tunnelID \in (IF kind = "inbound" THEN TunnelIDs ELSE OutboundTunnelIDs)
    /\ LET w == CreateTunnel(World, kind, config, "pool", replyMsgID, tunnelID, ts)
       IN Commit(w, NoTunnel)

\* A caller of CreateInboundTunnel passes a config and no pool.
DoCreateInboundTunnelWithoutPool(config, replyMsgID, tunnelID, ts) ==
    /\ replyTunnel = NoTunnel
    /\ LET w == CreateTunnel(World, "inbound", config, "none", replyMsgID, tunnelID, ts)
       IN Commit(w, NoTunnel)

\* The pool asks for a tunnel without a config: CreateInboundTunnel /
\* CreateOutboundTunnel fall to the zero-hop constructors.
DoCreateZeroHops(kind, tunnelID, ts) ==
    /\ replyTunnel = NoTunnel
    /\ tunnelID \in (IF kind = "inbound" THEN TunnelIDs ELSE OutboundTunnelIDs)
    /\ LET w == IF kind = "inbound"
                THEN CreateZeroHopsInboundTunnel(World, "pool", tunnelID, ts)
                ELSE CreateZeroHopsOutboundTunnel(World, "pool", tunnelID, ts)
       IN Commit(w, NoTunnel)

\* The worker takes a ShortTunnelBuild / VariableTunnelBuild message with
\* this msgID: the first half of HandleShortTunnelBuildMsg /
\* HandleVariableTunnelBuildMsg.  Not found: the message goes to the transit
\* subsystem.
HandleTunnelBuildMsg(msgID) ==
    /\ replyTunnel = NoTunnel
    /\ LET w == GetPendingTunnel(World, msgID, "inbound")
       IN Commit(w, w.ret)

\* The same for a ShortTunnelBuildReply / VariableTunnelBuildReply message:
\* the first half of HandleTunnelBuildReplyMsg.  Not found: a warning.
HandleTunnelBuildReplyMsg(msgID) ==
    /\ replyTunnel = NoTunnel
    /\ LET w == GetPendingTunnel(World, msgID, "outbound")
       IN Commit(w, w.ret)

\* The second half of the three handlers, on the tunnel GetPendingTunnel gave.
FinishBuildResponse(resp, replyMsgID, tunnelID, ts, rnd) ==
    /\ replyTunnel # NoTunnel
    /\ resp \in Responses(Len(tun[replyTunnel].config))
    /\ tunnelID \in OutboundTunnelIDs
    /\ LET w == HandleBuildResponseFor(World, replyTunnel, resp, replyMsgID, tunnelID, ts, rnd)
       IN Commit(w, NoTunnel)

\* The onDrop closure of Tunnel::Build (lines 94-98); the message dies
\* with it.
DropClosure(w, t) == [SetStateOf(w, t, BuildFailed) EXCEPT !.tun[t].onDrop = FALSE]

\* The transport drops the build message: the onDrop closure of Build runs,
\* on the transport's thread, whatever the worker is doing.
OnDrop(t) ==
    /\ tun[t].onDrop
    /\ Commit(DropClosure(World, t), replyTunnel)

\* The build message is sent (or copied into tunnel messages) and released:
\* its closure dies without running.
MsgReleased(t) ==
    /\ tun[t].onDrop
    /\ Commit([World EXCEPT !.tun[t].onDrop = FALSE], replyTunnel)

\* The worker handles a TunnelData message for this tunnel id (Run, lines
\* 564-575).
TunnelDataArrives(tunnelID) ==
    /\ replyTunnel = NoTunnel
    /\ LET t == GetTunnel(World, tunnelID)
       IN /\ t # NoTunnel
          /\ Commit(HandleTunnelDataMsg(World, t), NoTunnel)

\* One maintenance tick of Run (lines 621-626); ts is the clock's reading.
DoManageTunnels(ts) ==
    /\ replyTunnel = NoTunnel
    /\ \E w1 \in {ManagePendingTunnels(World, ts)} :
       \E wl \in {InboundLoop(w1, w1.inb, ts)} :
       \E in1 \in InboundInputs(wl) :
       \E w2 \in {InboundFallback(wl, ts, in1)} :
       \E wo \in {OutboundLoop(w2, w2.outb, ts)} :
       \E in2 \in OutboundInputs(wo) :
       \E w3 \in {OutboundFallback(wo, ts, in2)} :
         Commit(RecreateLoop(w3, w3.toRecreate), NoTunnel)

\* The transit subsystem builds a transit tunnel with this id and registers it.
AddTransitTunnel(tunnelID) ==
    /\ LET t == NextObj(World)
           w == Construct(World, t, [NewTunnel("transit", tunnelID, "none", <<>>, 0)
                                       EXCEPT !.hasConfig = FALSE])
           w1 == AddTunnel(w, t)
       IN Commit(w1, replyTunnel)

\* AddTunnel called again on a tunnel the registry may already hold, or on null.
AddTunnelAgain(t) ==
    /\ t = NoTunnel \/ \E p \in m_Tunnels : p[2] = t
    /\ LET w == AddTunnel(World, t)
       IN Commit(w, replyTunnel)

\* The transit subsystem removes one of its tunnels by id.
RemoveTransitTunnel(t) ==
    /\ tun[t].kind = "transit"
    /\ <<tun[t].id, t>> \in m_Tunnels
    /\ Commit(RemoveTunnel(World, tun[t].id), replyTunnel)

\* The pool's tunnel test gives up on a tunnel it owns and marks it Failed.
TunnelTestFailed(t) ==
    /\ replyTunnel = NoTunnel
    /\ t \in Range(m_InboundTunnels) \cup Range(m_OutboundTunnels)
    /\ tun[t].pool # "none"
    /\ tun[t].state \in {Established, Expiring}
    /\ Commit(SetStateOf(World, t, Failed), NoTunnel)

\* Tunnels::StopTunnelPool: the pool turns inactive and detaches the
\* tunnels it holds.
StopTunnelPool ==
    /\ replyTunnel = NoTunnel
    /\ poolActive
    /\ LET held == Range(m_InboundTunnels) \cup Range(m_OutboundTunnels)
           w == [World EXCEPT !.active = FALSE,
                              !.tun = [t \in Obj |-> IF t \in held
                                                     THEN [tun[t] EXCEPT !.pool = "none"]
                                                     ELSE tun[t]]]
       IN Commit(w, NoTunnel)

Next ==
    \/ \E kind \in {"inbound", "outbound"}, config \in HopLists,
          replyMsgID \in ReplyMsgIDs, tunnelID \in TunnelIDs, ts \in CreationClock :
          DoCreateTunnel(kind, config, replyMsgID, tunnelID, ts)
    \/ \E kind \in {"inbound", "outbound"}, tunnelID \in TunnelIDs, ts \in CreationClock :
          DoCreateZeroHops(kind, tunnelID, ts)
    \/ \E msgID \in ReplyMsgIDs : HandleTunnelBuildMsg(msgID)
    \/ \E msgID \in ReplyMsgIDs : HandleTunnelBuildReplyMsg(msgID)
    \/ \E resp \in Responses(1) \cup Responses(2), replyMsgID \in ReplyMsgIDs,
          tunnelID \in TunnelIDs, ts \in CreationClock, rnd \in RngValues :
          FinishBuildResponse(resp, replyMsgID, tunnelID, ts, rnd)
    \/ \E t \in Obj : OnDrop(t)
    \/ \E t \in Obj : MsgReleased(t)
    \/ \E tunnelID \in TunnelIDs : TunnelDataArrives(tunnelID)
    \/ \E ts \in ClockValues : DoManageTunnels(ts)
    \/ \E tunnelID \in TunnelIDs : AddTransitTunnel(tunnelID)
    \/ \E t \in Obj \cup {NoTunnel} : AddTunnelAgain(t)
    \/ \E t \in Obj : RemoveTransitTunnel(t)
    \/ \E t \in Obj : TunnelTestFailed(t)

Spec == Init /\ [][Next]_vars

(***************************************************************************)
(* Specification SpecSweep: the maintenance sweeps and the tunnels they    *)
(* create, with one more tunnel object and the pool's shutdown, and fewer  *)
(* of the other steps.                                                     *)
(***************************************************************************)
InitSweep ==
    InitLifeWith(Objects(MaxTunnels + MoreTunnels), {}) /\ InitRun /\ InitBuild(0) /\ InitRest

NextSweep ==
    \/ \E tunnelID \in TunnelIDs : AddTransitTunnel(tunnelID)
    \/ \E kind \in {"inbound", "outbound"}, tunnelID \in TunnelIDs :
          DoCreateZeroHops(kind, tunnelID, 1000)
    \/ \E config \in HopLists, replyMsgID \in ReplyMsgIDs, tunnelID \in TunnelIDs :
          DoCreateTunnel("inbound", config, replyMsgID, tunnelID, 1000)
    \/ \E config \in HopLists, replyMsgID \in ReplyMsgIDs, tunnelID \in TunnelIDs :
          DoCreateInboundTunnelWithoutPool(config, replyMsgID, tunnelID, 1000)
    \/ \E msgID \in ReplyMsgIDs : HandleTunnelBuildMsg(msgID)
    \/ \E resp \in Responses(1) \cup Responses(2), replyMsgID \in ReplyMsgIDs,
          tunnelID \in TunnelIDs, rnd \in RngValues :
          FinishBuildResponse(resp, replyMsgID, tunnelID, 1000, rnd)
    \/ \E ts \in ClockValues : DoManageTunnels(ts)
    \/ StopTunnelPool

SpecSweep == InitSweep /\ [][NextSweep]_vars

(***************************************************************************)
(* Specification SpecDrop: builds, their replies and the maintenance tick, *)
(* with the transport dropping build messages at any moment; every drop is *)
(* remembered, with the state the closure found the tunnel in.             *)
(***************************************************************************)
DroppedByTransport(t) ==
    /\ tun[t].onDrop
    /\ CommitLife(DropClosure(World, t), replyTunnel)
    /\ dropped' = dropped \cup {<<t, tun[t].state>>}
    /\ UNCHANGED <<runVars, buildVars, sendVars, stopVars, respVars, schedVars>>

InitDrop == Init

NextDrop ==
    \/ \E kind \in {"inbound", "outbound"}, config \in HopLists,
          replyMsgID \in ReplyMsgIDs, tunnelID \in TunnelIDs :
          DoCreateTunnel(kind, config, replyMsgID, tunnelID, 1000)
    \/ \E msgID \in ReplyMsgIDs : HandleTunnelBuildMsg(msgID)
    \/ \E msgID \in ReplyMsgIDs : HandleTunnelBuildReplyMsg(msgID)
    \/ \E resp \in Responses(1) \cup Responses(2), replyMsgID \in ReplyMsgIDs,
          tunnelID \in TunnelIDs, rnd \in RngValues :
          FinishBuildResponse(resp, replyMsgID, tunnelID, 1000, rnd)
    \/ \E t \in Obj : DroppedByTransport(t)
    \/ \E t \in Obj : MsgReleased(t)
    \/ \E tunnelID \in TunnelIDs : TunnelDataArrives(tunnelID)
    \/ \E ts \in ClockValues : DoManageTunnels(ts)

SpecDrop == InitDrop /\ [][NextDrop]_vars

(***************************************************************************)
(* The dispatcher: the message loop of Tunnels::Run (lines 547-615) and    *)
(* PostTunnelData.  The queue is i2p::util::Queue: Put appends under the   *)
(* queue's mutex, GetWholeQueue takes everything, in order.  The registry  *)
(* holds two transit tunnels; the pending maps are empty, so that a build  *)
(* message finds no pending tunnel and leaves the life cycle as it is.     *)
(***************************************************************************)
\* The registered tunnels: object t has tunnel id t.
RunTunnelIDs == {1, 2}
\* The messages a producer may put as the n-th one.  Tunnel id 0 is the id
\* of no registered tunnel (and the initial prevTunnelID); "build" stands
\* for the types of the build cases, "null" for a null pointer in a list.
Messages(n) ==
    {[type |-> "data", id |-> i, seq |-> n] : i \in {0} \cup RunTunnelIDs}
      \cup {[type |-> "gateway", id |-> 1, seq |-> n]}
      \cup {[type |-> ty, id |-> 0, seq |-> n] : ty \in {"build", "null"}}

\* Queue::Put (msg) and Queue::Put (list): append, under the queue's mutex.
Put(queue, list) == queue \o list

\* Queue::GetWholeQueue, called with an empty list: the queue's content.
GetWholeQueue(queue) == queue

\* A slip: pop_back in place of pop_front.
TakeBack(list) == [msg |-> list[Len(list)], rest |-> SubSeq(list, 1, Len(list) - 1)]

\* auto msg = msgs.front (); msgs.pop_front ();  (line 555)
TakeFront(list) == [msg |-> Head(list), rest |-> Tail(list)]

\* A slip: the cache of lines 565-566 never used.
CachedTunnelNever(id, prevID, prev) == NoTunnel

\* Lines 565-566: the tunnel of the previous message, when the id is the same.
CachedTunnel(id, prevID, prev) == IF id = prevID THEN prev ELSE NoTunnel

\* A slip: the queue taken again whatever the wake has handled.
TryMoreUnbounded(rest, n, queue) == rest = <<>> /\ queue # <<>>

\* Lines 608-611: the list is empty, the wake has handled n messages; the
\* queue is taken again when n is under the batch size and it is not empty.
TryMore(rest, n, queue) ==
    rest = <<>> /\ n < MAX_TUNNEL_MSGS_BATCH_SIZE /\ queue # <<>>

InitSpecRun ==
    /\ InitLifeWith([t \in Obj |->
                       IF t \in RunTunnelIDs
                       THEN [NewTunnel("transit", t, "none", <<>>, 0) EXCEPT !.hasConfig = FALSE]
                       ELSE NoObject],
                    {<<t, t>> : t \in RunTunnelIDs \cap Obj})
    /\ InitRun
    /\ InitBuild(0)
    /\ InitRest

\* Tunnels::PostTunnelData (msg): a null message is not put.
PostTunnelData(msg) ==
    /\ numPosted < MaxPosted
    /\ msg.type # "null"
    /\ m_Queue' = Put(m_Queue, <<msg>>)
    /\ numPosted' = numPosted + 1
    /\ UNCHANGED <<msgs, inLoop, numMsgs, prevTunnelID, curTunnelID, prevTunnel, numDrains,
                   wakeMsgs, lookups, flushes, unflushed, handled, lifeVars, buildVars, restVars>>

\* Tunnels::PostTunnelData (msgs): the list goes on the queue as it is.
PostTunnelDataList(list) ==
    /\ numPosted + Len(list) <= MaxPosted
    /\ m_Queue' = Put(m_Queue, list)
    /\ numPosted' = numPosted + Len(list)
    /\ UNCHANGED <<msgs, inLoop, numMsgs, prevTunnelID, curTunnelID, prevTunnel, numDrains,
                   wakeMsgs, lookups, flushes, unflushed, handled, lifeVars, buildVars, restVars>>

\* Lines 547-552: Wait returns with messages on the queue; one wake begins.
Wake ==
    /\ ~inLoop /\ m_Queue # <<>>
    /\ msgs' = GetWholeQueue(m_Queue) /\ m_Queue' = <<>>
    /\ numMsgs' = 0 /\ prevTunnelID' = 0 /\ curTunnelID' = 0 /\ prevTunnel' = NoTunnel
    /\ inLoop' = TRUE
    /\ numDrains' = numDrains + 1
    /\ wakeMsgs' = <<>> /\ lookups' = <<>> /\ flushes' = <<>> /\ unflushed' = {}
    /\ UNCHANGED <<numPosted, handled, lifeVars, buildVars, restVars>>

\* One pass of the inner while (lines 553-615).
HandleMsg ==
    /\ inLoop /\ msgs # <<>>
    /\ LET msg == TakeFront(msgs).msg
           rest == TakeFront(msgs).rest
       IN IF msg.type = "null"
          THEN \* if (!msg) continue;
               /\ msgs' = rest /\ inLoop' = (rest # <<>>)
               /\ wakeMsgs' = Append(wakeMsgs, msg)
               /\ UNCHANGED <<m_Queue, numMsgs, prevTunnelID, curTunnelID, prevTunnel,
                              numDrains, lookups, flushes, unflushed, handled>>
          ELSE LET isData == msg.type \in {"data", "gateway"}
                   id == IF isData THEN msg.id ELSE curTunnelID
                   cached == IF isData THEN CachedTunnel(id, prevTunnelID, prevTunnel)
                             ELSE NoTunnel
                   flushPrev == IF isData /\ id # prevTunnelID /\ prevTunnel # NoTunnel
                                THEN <<prevTunnel>> ELSE <<>>
                   lookup == IF isData /\ cached = NoTunnel THEN <<id>> ELSE <<>>
                   tunnel == IF ~isData THEN NoTunnel
                             ELSE IF cached # NoTunnel THEN cached
                             ELSE GetTunnel(World, id)
                   more == TryMore(rest, numMsgs + 1, m_Queue)
                   flushLast == IF rest = <<>> /\ ~more /\ tunnel # NoTunnel
                                THEN <<tunnel>> ELSE <<>>
               IN /\ curTunnelID' = id /\ prevTunnelID' = id /\ prevTunnel' = tunnel
                  /\ numMsgs' = numMsgs + 1
                  /\ lookups' = lookups \o lookup
                  /\ flushes' = flushes \o flushPrev \o flushLast
                  /\ unflushed' = ((unflushed \ Range(flushPrev))
                                     \cup (IF tunnel # NoTunnel THEN {tunnel} ELSE {}))
                                    \ Range(flushLast)
                  /\ handled' = IF tunnel # NoTunnel
                                THEN Append(handled, [msg |-> msg, tunnel |-> tunnel,
                                                      drain |-> numDrains])
                                ELSE handled
                  /\ msgs' = IF more THEN GetWholeQueue(m_Queue) ELSE rest
                  /\ m_Queue' = IF more THEN <<>> ELSE m_Queue
                  /\ numDrains' = IF more THEN numDrains + 1 ELSE numDrains
                  /\ inLoop' = (more \/ rest # <<>>)
                  /\ wakeMsgs' = Append(wakeMsgs, msg)
    /\ UNCHANGED <<numPosted, lifeVars, buildVars, restVars>>

NextRun ==
    \/ \E msg \in Messages(numPosted + 1) : PostTunnelData(msg)
    \/ \E m1 \in Messages(numPosted + 1), m2 \in Messages(numPosted + 2) :
          PostTunnelDataList(<<m1, m2>>)
    \/ Wake
    \/ HandleMsg

SpecRun == InitSpecRun /\ [][NextRun]_vars

(***************************************************************************)
(* Specification SpecStop: Stop against the outer loop of Run (lines       *)
(* 523-534 and 543-646) while producers put messages without end.  The     *)
(* worker is at "check" (the while of line 545), "wait" (Queue::Wait),     *)
(* "loop" (the inner while), "manage" (lines 617-640) or "exited".  What a *)
(* handler does to the tunnels is left out: it returns.  numMsgs stops     *)
(* counting at the batch size, which is all line 610 asks of it.           *)
(***************************************************************************)
StopMessages ==
    {[type |-> ty, id |-> 0, seq |-> 0] : ty \in {"data", "build", "null"}}

Min(a, b) == IF a < b THEN a ELSE b

\* A producer's PostTunnelData (msg), at any time.
PostMore(msg) ==
    /\ Len(m_Queue) < MaxQueued
    /\ msg.type # "null"
    /\ m_Queue' = Put(m_Queue, <<msg>>)
    /\ UNCHANGED <<msgs, inLoop, numMsgs, prevTunnelID, curTunnelID, prevTunnel, numPosted,
                   numDrains, wakeMsgs, lookups, flushes, unflushed, handled,
                   lifeVars, buildVars, restVars>>

\* A producer's PostTunnelData (msgs), at any time.
PostMoreList(list) ==
    /\ Len(m_Queue) + Len(list) <= MaxQueued
    /\ m_Queue' = Put(m_Queue, list)
    /\ UNCHANGED <<msgs, inLoop, numMsgs, prevTunnelID, curTunnelID, prevTunnel, numPosted,
                   numDrains, wakeMsgs, lookups, flushes, unflushed, handled,
                   lifeVars, buildVars, restVars>>

\* while (m_IsRunning)
RunCheck ==
    /\ worker = "check"
    /\ worker' = IF m_IsRunning THEN "wait" ELSE "exited"
    /\ UNCHANGED <<m_IsRunning, stopper, sendVars, respVars, schedVars, dropVars, lifeVars, runVars, buildVars>>

\* Lines 547-552: Wait returns within its second, or at WakeUp; with
\* messages on the queue a wake begins.
RunWait ==
    /\ worker = "wait"
    /\ IF m_Queue # <<>>
       THEN /\ msgs' = GetWholeQueue(m_Queue) /\ m_Queue' = <<>>
            /\ numMsgs' = 0 /\ inLoop' = TRUE
            /\ worker' = "loop"
       ELSE /\ worker' = "manage"
            /\ UNCHANGED <<m_Queue, msgs, numMsgs, inLoop>>
    /\ UNCHANGED <<prevTunnelID, curTunnelID, prevTunnel, numPosted, numDrains, wakeMsgs,
                   lookups, flushes, unflushed, handled>>
    /\ UNCHANGED <<m_IsRunning, stopper, sendVars, respVars, schedVars, dropVars, lifeVars, buildVars>>

\* One pass of the inner while (lines 553-615), its handler returning.
RunHandle ==
    /\ worker = "loop"
    /\ LET msg == TakeFront(msgs).msg
           rest == TakeFront(msgs).rest
           n == Min(numMsgs + 1, MAX_TUNNEL_MSGS_BATCH_SIZE)
           more == msg.type # "null" /\ TryMore(rest, n, m_Queue)
       IN /\ numMsgs' = IF msg.type = "null" THEN numMsgs ELSE n
          /\ msgs' = IF more THEN GetWholeQueue(m_Queue) ELSE rest
          /\ m_Queue' = IF more THEN <<>> ELSE m_Queue
          /\ inLoop' = (more \/ rest # <<>>)
          /\ worker' = IF more \/ rest # <<>> THEN "loop" ELSE "manage"
    /\ UNCHANGED <<prevTunnelID, curTunnelID, prevTunnel, numPosted, numDrains, wakeMsgs,
                   lookups, flushes, unflushed, handled>>
    /\ UNCHANGED <<m_IsRunning, stopper, sendVars, respVars, schedVars, dropVars, lifeVars, buildVars>>

\* Lines 617-640: the maintenance of this pass, done or not yet due.
RunManage ==
    /\ worker = "manage"
    /\ worker' = "check"
    /\ UNCHANGED <<m_IsRunning, stopper, sendVars, respVars, schedVars, dropVars, lifeVars, runVars, buildVars>>

\* Stop is called: m_TransitTunnels.Stop () (line 525).
StopCalled ==
    /\ stopper = "idle"
    /\ stopper' = "called"
    /\ UNCHANGED <<m_IsRunning, worker, sendVars, respVars, schedVars, dropVars, lifeVars, runVars, buildVars>>

\* Lines 526-527: m_IsRunning = false; m_Queue.WakeUp ();
StopClears ==
    /\ stopper = "called"
    /\ m_IsRunning' = FALSE
    /\ stopper' = "joining"
    /\ UNCHANGED <<worker, sendVars, respVars, schedVars, dropVars, lifeVars, runVars, buildVars>>

\* Lines 528-533: join returns once Run has returned.
StopJoins ==
    /\ stopper = "joining" /\ worker = "exited"
    /\ stopper' = "joined"
    /\ UNCHANGED <<m_IsRunning, worker, sendVars, respVars, schedVars, dropVars, lifeVars, runVars, buildVars>>

RunStep == RunCheck \/ RunWait \/ RunHandle \/ RunManage

StopStep == StopClears \/ StopJoins

NextStop ==
    \/ \E msg \in StopMessages : PostMore(msg)
    \/ \E m1, m2 \in StopMessages : PostMoreList(<<m1, m2>>)
    \/ RunCheck
    \/ RunWait
    \/ RunHandle
    \/ RunManage
    \/ StopCalled
    \/ StopClears
    \/ StopJoins

\* The worker thread and the thread inside Stop are scheduled again and
\* again; nothing is asked of the producers or of who calls Stop.
SpecStop == Init /\ [][NextStop]_vars /\ WF_vars(RunStep) /\ WF_vars(StopStep)

(***************************************************************************)
(* The records Tunnel::Build writes (lines 44-77).  A slot of the payload  *)
(* is the sequence of what was written to it: the number of the hop whose  *)
(* CreateBuildRequestRecord wrote it, or 0 for the random bytes of a fake  *)
(* record.                                                                 *)
(***************************************************************************)
FakeRecord == 0

\* Line 47
NumRecords(n) == IF n <= STANDARD_NUM_RECORDS THEN STANDARD_NUM_RECORDS ELSE MAX_NUM_RECORDS

\* Lines 54-55: the outcomes of std::shuffle on 0 .. n-1.
Shuffles(n) == Permutations(0..(n - 1))

RECURSIVE CreateRealRecords(_, _, _, _)
\* Lines 60-71: hop i+1 takes recordIndicies[i] and writes its record there.
CreateRealRecords(recs, indicies, i, n) ==
    IF i >= n THEN recs
    ELSE CreateRealRecords([recs EXCEPT ![indicies[i]] = Append(@, i + 1)], indicies, i + 1, n)

\* A slip: the loop of the fake records started at 0.
FillFakeRecordsFromZero(recs, indicies, i, n) ==
    LET RECURSIVE Fill(_, _)
        Fill(r, k) == IF k >= n THEN r
                      ELSE Fill([r EXCEPT ![indicies[k]] = Append(@, FakeRecord)], k + 1)
    IN Fill(recs, 0)

RECURSIVE FillFakeRecords(_, _, _, _)
\* Lines 73-77: for (int i = numHops; i < numRecords; i++)
FillFakeRecords(recs, indicies, i, n) ==
    IF i >= n THEN recs
    ELSE FillFakeRecords([recs EXCEPT ![indicies[i]] = Append(@, FakeRecord)],
                         indicies, i + 1, n)

(***************************************************************************)
(* The layers of the records.  The transforms of a hop are abstract: a     *)
(* layer is <<op, k>>, op "D" for hop k's DecryptRecord, "E" for what the   *)
(* router of hop k does to the records of the others when it handles the   *)
(* message, the inverse of "D", and "R" for the encryption of hop k's own   *)
(* reply record.  A slot holds the layers on its record, innermost first.  *)
(* A transform cancels against its inverse when that is the outermost      *)
(* layer, and stays on the slot as one more layer otherwise.               *)
(***************************************************************************)
Inverse(op) == IF op = "D" THEN "E" ELSE "D"

Transform(lay, op, k, idx) ==
    LET s == lay[idx]
    IN IF s # <<>> /\ s[Len(s)] = <<Inverse(op), k>>
       THEN [lay EXCEPT ![idx] = SubSeq(s, 1, Len(s) - 1)]
       ELSE [lay EXCEPT ![idx] = Append(s, <<op, k>>)]

\* hop->DecryptRecord (records, idx), for hop k (lines 86 and 166)
DecryptRecord(lay, k, idx) == Transform(lay, "D", k, idx)

RECURSIVE DecryptRecordsAfter(_, _, _, _, _)
\* Lines 83-88: hop k decrypts the records of the hops hop1 .. n after it.
DecryptRecordsAfter(lay, index, k, hop1, n) ==
    IF hop1 > n THEN lay
    ELSE DecryptRecordsAfter(DecryptRecord(lay, k, index[hop1]), index, k, hop1 + 1, n)

\* A slip: the pass walking from the first hop to the one before the last.
DecryptRealRecordsAscending(lay, index, hop, n) ==
    LET RECURSIVE Pass(_, _)
        Pass(l, k) == IF k > hop THEN l
                      ELSE Pass(DecryptRecordsAfter(l, index, k, k + 1, n), k + 1)
    IN Pass(lay, 1)

RECURSIVE DecryptRealRecords(_, _, _, _)
\* Lines 79-91: from hop = GetLastHop ()->prev down to the first hop.
DecryptRealRecords(lay, index, hop, n) ==
    IF hop < 1 THEN lay
    ELSE DecryptRealRecords(DecryptRecordsAfter(lay, index, hop, hop + 1, n),
                            index, hop - 1, n)

\* hop->DecryptBuildResponseRecord (msg + 1), for hop k: it removes the
\* layer of the hop's own reply, and fails when that is not what it finds.
DecryptBuildResponseRecord(lay, k, idx) ==
    LET s == lay[idx]
    IN IF s # <<>> /\ s[Len(s)] = <<"R", k>>
       THEN [ok |-> TRUE, layers |-> [lay EXCEPT ![idx] = SubSeq(s, 1, Len(s) - 1)]]
       ELSE [ok |-> FALSE, layers |-> lay]

RECURSIVE DecryptRecordsBefore(_, _, _, _, _)
\* Lines 161-170: hop k decrypts the records of the hops hop1 .. 1 before it.
DecryptRecordsBefore(lay, index, num, k, hop1) ==
    IF hop1 < 1 THEN lay
    ELSE LET idx == index[hop1]
         IN DecryptRecordsBefore(IF idx >= 0 /\ idx < num THEN DecryptRecord(lay, k, idx)
                                 ELSE lay,
                                 index, num, k, hop1 - 1)

\* One pass of the loop of lines 147-172, for hop k.
ResponseHop(lay, index, num, k) ==
    IF index[k] >= 0 /\ index[k] < num
    THEN LET own == DecryptBuildResponseRecord(lay, k, index[k])
         IN IF own.ok
            THEN [ok |-> TRUE, layers |-> DecryptRecordsBefore(own.layers, index, num, k, k - 1)]
            ELSE [ok |-> FALSE, layers |-> own.layers]
    ELSE [ok |-> FALSE, layers |-> lay]

\* A slip: the loop walking from the first hop to the last.
DecryptResponseRecordsAscending(lay, index, num, hop) ==
    LET RECURSIVE Pass(_, _)
        Pass(l, k) == IF k > hop THEN [ok |-> TRUE, layers |-> l]
                      ELSE LET r == ResponseHop(l, index, num, k)
                           IN IF r.ok THEN Pass(r.layers, k + 1) ELSE r
    IN Pass(lay, 1)

RECURSIVE DecryptResponseRecords(_, _, _, _)
\* Lines 146-173: from hop = GetLastHop () down to the first hop.
DecryptResponseRecords(lay, index, num, hop) ==
    IF hop < 1 THEN [ok |-> TRUE, layers |-> lay]
    ELSE LET r == ResponseHop(lay, index, num, hop)
         IN IF r.ok THEN DecryptResponseRecords(r.layers, index, num, hop - 1) ELSE r

InitSpecBuild ==
    /\ InitLife /\ InitRun /\ InitRest
    /\ \E n \in 1..MAX_NUM_RECORDS : InitBuild(n)

\* Tunnel::Build up to the decryption of the real records, with this outcome
\* of the shuffle.
DoBuild(shuffled) ==
    /\ ~built
    /\ LET n == NumRecords(numHops)
           empty == [idx \in 0..(n - 1) |-> <<>>]
           real == CreateRealRecords(empty, shuffled, 0, numHops)
           index == [k \in 1..numHops |-> shuffled[k - 1]]
       IN /\ numRecords' = n
          /\ recordIndicies' = shuffled
          /\ recordIndex' = index
          /\ records' = FillFakeRecords(real, shuffled, numHops, n)
          /\ layers' = DecryptRealRecords(empty, index, numHops - 1, numHops)
    /\ built' = TRUE
    /\ UNCHANGED <<numHops, found, peeled, lifeVars, runVars, restVars>>

\* The router of the next hop in traversal order handles the build message:
\* it reads the record of its slot, puts its reply there under the layer of
\* its reply key, and transforms every other record of the message.
HopProcesses ==
    /\ built /\ Len(found) < numHops
    /\ LET k == Len(found) + 1
           own == recordIndex[k]
       IN /\ found' = Append(found, layers[own])
          /\ layers' = [idx \in DOMAIN layers |->
                          IF idx = own THEN <<<<"R", k>>>>
                          ELSE Transform(layers, "E", k, idx)[idx]]
    /\ UNCHANGED <<numHops, built, numRecords, recordIndicies, recordIndex, records,
                   peeled, lifeVars, runVars, restVars>>

\* The reply comes back: the first loop of Tunnel::HandleTunnelBuildResponse.
DoDecryptResponse ==
    /\ built /\ Len(found) = numHops /\ peeled = "no"
    /\ LET r == DecryptResponseRecords(layers, recordIndex, numRecords, numHops)
       IN /\ layers' = r.layers
          /\ peeled' = IF r.ok THEN "ok" ELSE "failed"
    /\ UNCHANGED <<numHops, built, numRecords, recordIndicies, recordIndex, records,
                   found, lifeVars, runVars, restVars>>

NextBuild ==
    \/ ~built /\ \E shuffled \in Shuffles(NumRecords(numHops)) : DoBuild(shuffled)
    \/ HopProcesses
    \/ DoDecryptResponse

SpecBuild == InitSpecBuild /\ [][NextBuild]_vars

(***************************************************************************)
(* Specification SpecZeroHops: the send paths of the two zero-hop tunnels  *)
(* (lines 305-313 and 370-391).  A message is its length and the number it *)
(* was handed over under; the handlers work on the record of the two       *)
(* counters and of what was counted and passed on.                         *)
(***************************************************************************)
\* A null shared_ptr in place of a message.
NullMsg == [len |-> 0, seq |-> 0, from |-> "null"]
MsgLengths == {1, 2}
\* The delivery types of the switch of line 376, and one it does not know.
DeliveryTypes == {"Local", "Tunnel", "Router", "Unknown"}

SendMessages(n) == {[len |-> l, seq |-> n, from |-> "nobody"] : l \in MsgLengths}
Blocks(n) ==
    {[data |-> d, deliveryType |-> ty] :
       d \in {NullMsg} \cup SendMessages(n), ty \in DeliveryTypes}

SendState ==
    [received |-> m_NumReceivedBytes, sent |-> m_NumSentBytes,
     counted |-> counted, delivered |-> delivered]

\* HandleI2NPMessage (msg) / transports.SendMessage (hash, msg), called by
\* the inbound or the outbound tunnel.
Deliver(st, by, to, msg) ==
    [st EXCEPT !.delivered = Append(st.delivered, [by |-> by, to |-> to, msg |-> msg])]

\* ZeroHopsInboundTunnel::SendTunnelDataMsg
SendTunnelDataMsg(st, msg) ==
    IF msg # NullMsg
    THEN LET st1 == [st EXCEPT !.received = st.received + msg.len,
                               !.counted = Append(st.counted, <<"inbound", msg>>)]
         IN Deliver(st1, "inbound", "local", [msg EXCEPT !.from = "this"])
    ELSE st

\* The loop body as it would be with the bytes counted in the cases that
\* pass the message on, and not before the switch.
SendBlockCountingDelivered(st, block) ==
    IF block.data = NullMsg THEN st
    ELSE LET st1 == [st EXCEPT !.sent = st.sent + block.data.len,
                               !.counted = Append(st.counted, <<"outbound", block.data>>)]
         IN CASE block.deliveryType = "Local" -> Deliver(st1, "outbound", "local", block.data)
              [] block.deliveryType \in {"Tunnel", "Router"} ->
                   Deliver(st1, "outbound", "transport", block.data)
              [] OTHER -> st

\* One iteration of the loop of ZeroHopsOutboundTunnel::SendTunnelDataMsgs
\* (lines 374-389).  The tunnel gateway message of the Tunnel case carries
\* msg.data as its payload.
SendBlock(st, block) ==
    IF block.data = NullMsg THEN st
    ELSE LET st1 == [st EXCEPT !.sent = st.sent + block.data.len,
                               !.counted = Append(st.counted, <<"outbound", block.data>>)]
         IN CASE block.deliveryType = "Local" -> Deliver(st1, "outbound", "local", block.data)
              [] block.deliveryType \in {"Tunnel", "Router"} ->
                   Deliver(st1, "outbound", "transport", block.data)
              [] OTHER -> st1

RECURSIVE SendTunnelDataMsgs(_, _)
\* ZeroHopsOutboundTunnel::SendTunnelDataMsgs
SendTunnelDataMsgs(st, blocks) ==
    IF blocks = <<>> THEN st
    ELSE SendTunnelDataMsgs(SendBlock(st, Head(blocks)), Tail(blocks))

\* The call's result becomes the next state; n messages were handed over.
CommitSend(st, n) ==
    /\ m_NumReceivedBytes' = st.received /\ m_NumSentBytes' = st.sent
    /\ counted' = st.counted /\ delivered' = st.delivered
    /\ numSends' = numSends + n
    /\ UNCHANGED <<lifeVars, runVars, buildVars, stopVars, respVars, schedVars, dropVars>>

DoSendTunnelDataMsg(msg) ==
    /\ numSends < MaxSends
    /\ CommitSend(SendTunnelDataMsg(SendState, msg), 1)

DoSendTunnelDataMsgs(blocks) ==
    /\ numSends + Len(blocks) <= MaxSends
    /\ CommitSend(SendTunnelDataMsgs(SendState, blocks), Len(blocks))

InitZeroHops == Init

NextZeroHops ==
    \/ \E msg \in {NullMsg} \cup SendMessages(numSends + 1) : DoSendTunnelDataMsg(msg)
    \/ \E b1 \in Blocks(numSends + 1) : DoSendTunnelDataMsgs(<<b1>>)
    \/ \E b1 \in Blocks(numSends + 1), b2 \in Blocks(numSends + 2) :
          DoSendTunnelDataMsgs(<<b1, b2>>)

SpecZeroHops == InitZeroHops /\ [][NextZeroHops]_vars

(***************************************************************************)
(* Specification SpecResponse: the build handlers on the messages as they  *)
(* arrive.  A response message is its first byte num, its payload length   *)
(* len, for each hop whether the hop's own record decrypts and verifies    *)
(* (mac), and the return code GetRetCode reads from the hop's record.      *)
(* index is the recordIndex Build gave each hop.  Every tunnel has a pool, *)
(* so that no symmetric tunnel is built and the random ids of one are not  *)
(* drawn.                                                                  *)
(***************************************************************************)
ResponseNums == {2, STANDARD_NUM_RECORDS, MAX_NUM_RECORDS + 1}

\* The payload is one byte short of the num records and the count byte, or
\* exactly that.
ResponseMsgs(n) ==
    {[num |-> num, len |-> num * RecordSize + len, mac |-> mac, codes |-> c] :
        num \in ResponseNums, len \in {0, 1},
        mac \in [1..n -> BOOLEAN], c \in [1..n -> RetCodes]}

\* Lines 54-71: the hops take distinct slots of the message Build wrote; the
\* model has them in its first slots.
RecordIndexes(n) ==
    {idx \in [1..n -> 0..MaxRecordIndex] :
        \A i, j \in 1..n : i # j => idx[i] # idx[j]}

\* A slip: the hop's own record decrypted without the test of line 150.
ResponseLoopUnchecked(msg, index, hop) ==
    IF \A k \in 1..hop : msg.mac[k] THEN 0 ELSE 153

RECURSIVE ResponseLoop(_, _, _)
\* Lines 146-173, as far as the return value goes: from the last hop to the
\* first, the line of the return false the loop leaves by, at the first hop
\* whose recordIndex is out of range (158) or whose
\* DecryptBuildResponseRecord fails (153); 0 when the loop runs to its end.
ResponseLoop(msg, index, hop) ==
    IF hop < 1 THEN 0
    ELSE IF index[hop] >= 0 /\ index[hop] < msg.num
         THEN IF ~msg.mac[hop] THEN 153 ELSE ResponseLoop(msg, index, hop - 1)
         ELSE 158

\* Lines 133-173: the line of the return false the message is rejected at,
\* or 0.
RejectedAt(msg, index, n) ==
    IF msg.num > MAX_NUM_RECORDS THEN 138
    ELSE IF msg.len < msg.num * RecordSize + 1 THEN 143
    ELSE ResponseLoop(msg, index, n)

\* What the rest of Tunnel::HandleTunnelBuildResponse gets to read: nothing
\* of a rejected message, the hops' return codes otherwise.
ReadResponse(msg, index, n) ==
    IF RejectedAt(msg, index, n) # 0 THEN [ok |-> FALSE, codes |-> <<>>]
    ELSE [ok |-> TRUE, codes |-> msg.codes]

\* Tunnel::HandleTunnelBuildResponse (msg, len)
HandleTunnelBuildResponseMsg(w, t, msg, index) ==
    HandleTunnelBuildResponse(w, t, ReadResponse(msg, index, Len(w.tun[t].config)))

\* The second half of the three handlers on the message received.
HandleBuildResponseMsgFor(w, t, msg, index, replyMsgID, tunnelID, ts, rnd) ==
    HandleBuildResponseFor(w, t, ReadResponse(msg, index, Len(w.tun[t].config)),
                           replyMsgID, tunnelID, ts, rnd)

DoHandleTunnelBuildResponse(msg, index, replyMsgID, tunnelID, ts, rnd) ==
    /\ replyTunnel # NoTunnel
    /\ msg \in ResponseMsgs(Len(tun[replyTunnel].config))
    /\ index \in RecordIndexes(Len(tun[replyTunnel].config))
    /\ LET t == replyTunnel
           n == Len(tun[t].config)
           w == HandleBuildResponseMsgFor(World, t, msg, index, replyMsgID, tunnelID, ts, rnd)
       IN /\ CommitLife(w, NoTunnel)
          /\ response' = [t |-> t, at |-> RejectedAt(msg, index, n),
                          codes |-> ReadResponse(msg, index, n).codes,
                          ret |-> HandleTunnelBuildResponseMsg(World, t, msg, index).ret,
                          ev |-> w.ev]
    /\ UNCHANGED <<runVars, buildVars, sendVars, stopVars, schedVars, dropVars>>

InitResponse == Init

NextResponse ==
    \/ \E kind \in {"inbound", "outbound"}, config \in HopLists,
          replyMsgID \in ReplyMsgIDs, tunnelID \in OutboundTunnelIDs :
          DoCreateTunnel(kind, config, replyMsgID, tunnelID, 1000)
    \/ \E msgID \in ReplyMsgIDs : HandleTunnelBuildMsg(msgID)
    \/ \E msgID \in ReplyMsgIDs : HandleTunnelBuildReplyMsg(msgID)
    \/ replyTunnel # NoTunnel /\
         \E msg \in ResponseMsgs(2), index \in RecordIndexes(2) :
            DoHandleTunnelBuildResponse(msg, index, 1, 1, 1000, 0)

SpecResponse == InitResponse /\ [][NextResponse]_vars

(***************************************************************************)
(* Specification SpecSchedule: the maintenance part of one pass of Run's   *)
(* outer loop (lines 618-640), pass after pass, under a clock that may     *)
(* read anything and a transport that is online or not.  The three tasks   *)
(* themselves are left out: a task that runs is put in ran.                *)
(***************************************************************************)
Modulus == 2 ^ ClockBits

\* What GetSecondsSinceEpoch returns in the model: readings a few seconds
\* and a few intervals apart, and two within an interval of the wrap.
ScheduleClock == {100, 102, 104, 105, 115, 220, Modulus - 6, Modulus - 3}

\* The arithmetic of uint64_t.
Minus(a, b) == (a - b + Modulus) % Modulus
Plus(a, b) == (a + b) % Modulus

\* A slip: > in place of >=.
DueStrictly(ts, last, interval) == Minus(ts, last) > interval \/ Plus(ts, interval) < last

\* The test of lines 621-622, 627-628 and 633-634.
Due(ts, last, interval) == Minus(ts, last) >= interval \/ Plus(ts, interval) < last

\* Lines 618-640 of one pass; ts is read once, at line 620.
Maintain(ts, online) ==
    LET manage == online /\ Due(ts, lastTs, TUNNEL_MANAGE_INTERVAL)
        pools == online /\ Due(ts, lastPoolsTs, TUNNEL_POOLS_MANAGE_INTERVAL)
        memory == online /\ Due(ts, lastMemoryPoolTs, TUNNEL_MEMORY_POOL_MANAGE_INTERVAL)
    IN /\ lastTs' = IF manage THEN ts ELSE lastTs
       /\ lastPoolsTs' = IF pools THEN ts ELSE lastPoolsTs
       /\ lastMemoryPoolTs' = IF memory THEN ts ELSE lastMemoryPoolTs
       /\ ran' = (IF manage THEN {"ManageTunnels"} ELSE {})
                   \cup (IF pools THEN {"ManageTunnelPools"} ELSE {})
                   \cup (IF memory THEN {"CleanUpMt"} ELSE {})
       /\ schedTs' = (IF online THEN ts ELSE schedTs)
       /\ schedPrevTs' = (IF online THEN schedTs ELSE schedPrevTs)
       /\ wasOnline' = online
       /\ UNCHANGED <<lifeVars, runVars, buildVars, sendVars, stopVars, respVars, dropVars>>

InitSchedule == Init

NextSchedule ==
    \/ \E ts \in ScheduleClock : Maintain(ts, TRUE)
    \/ \E ts \in ScheduleClock : Maintain(ts, FALSE)

SpecSchedule == InitSchedule /\ [][NextSchedule]_vars

(***************************************************************************)
(* Properties of the life cycle.                                           *)
(***************************************************************************)
Constructed(t) == tun[t].kind \notin {"none", "absent", "destroyed"}
Registered(t) == \E p \in m_Tunnels : p[2] = t
InList(t) == t \in Range(m_InboundTunnels) \cup Range(m_OutboundTunnels)
\* made by CreateTunnel, with a config
Built(t) == tun[t].kind \in {"inbound", "outbound"}
\* t is the same live object before and after the step
SameObject(t) == Constructed(t) /\ tun'[t].kind = tun[t].kind

\* C1: the registry maps each tunnel id to at most one tunnel; AddTunnel of
\* a null tunnel, or of a tunnel whose id is present, returns false and
\* leaves the registry as it is; AddTunnel of a tunnel whose id is absent
\* returns true, maps the id to it, and a second AddTunnel of the same
\* tunnel returns false and changes nothing.
C1_RegistryOneTunnelPerId ==
    /\ \A p, q \in m_Tunnels : p[1] = q[1] => p = q
    /\ \A t \in Obj \cup {NoTunnel} :
         (t = NoTunnel \/ Constructed(t)) =>
           LET w == AddTunnel(World, t)
               present == t # NoTunnel /\ \E p \in m_Tunnels : p[1] = tun[t].id
           IN IF t = NoTunnel \/ present
              THEN w.ret = FALSE /\ w.reg = m_Tunnels
              ELSE /\ w.ret = TRUE
                   /\ w.reg = m_Tunnels \cup {<<tun[t].id, t>>}
                   /\ AddTunnel(w, t).ret = FALSE
                   /\ AddTunnel(w, t).reg = w.reg

\* A zero-hop inbound tunnel drew the id of a registered tunnel: AddTunnel
\* refused it, it is in the inbound list and the registry kept the other.
C1_Witness ==
    \E t, u \in Obj :
        /\ t # u
        /\ <<tun[t].id, t>> \in m_Tunnels
        /\ tun[u].kind = "zeroInbound" /\ tun[u].id = tun[t].id
        /\ u \in Range(m_InboundTunnels) /\ ~Registered(u)

\* C2: between two worker steps, every Established inbound tunnel is in the
\* registry under its id and in the inbound list, and every Established
\* outbound tunnel is in the outbound list and not in the registry.
C2_EstablishedAreListed ==
    replyTunnel = NoTunnel =>
      \A t \in Obj :
         Constructed(t) /\ IsEstablished(tun[t]) =>
           /\ IsInbound(tun[t]) =>
                <<tun[t].id, t>> \in m_Tunnels /\ t \in Range(m_InboundTunnels)
           /\ IsOutbound(tun[t]) =>
                t \in Range(m_OutboundTunnels) /\ ~Registered(t)

\* An inbound tunnel established by a build response while another tunnel
\* holds its id: Established, still in the pending map, in neither the
\* registry nor the inbound list.
C2_CollidingBuildResponse ==
    \E t, u \in Obj :
        /\ t # u /\ replyTunnel = NoTunnel
        /\ tun[t].kind = "inbound" /\ IsEstablished(tun[t])
        /\ \E p \in m_PendingInboundTunnels : p[2] = t
        /\ <<tun[t].id, u>> \in m_Tunnels
        /\ ~Registered(t) /\ t \notin Range(m_InboundTunnels)

\* The order of the states: Pending, BuildReplyReceived, then Established,
\* Expiring, Failed on one branch and BuildFailed on the other.
Forward(s1, s2) ==
    \/ s1 = s2
    \/ s1 = Pending
    \/ s1 = BuildReplyReceived /\ s2 # Pending
    \/ s1 = Established /\ s2 \in {Expiring, Failed}
    \/ s1 = Expiring /\ s2 = Failed

BuildReplyReceivedIsTransient ==
    \A t \in Obj : Constructed(t) /\ tun[t].state = BuildReplyReceived => replyTunnel = t

\* C3 as claimed: no step moves a tunnel to an earlier state, and no tunnel
\* is BuildReplyReceived outside the handler that entered the state.
C3_Monotone ==
    /\ []BuildReplyReceivedIsTransient
    /\ [][\A t \in Obj : SameObject(t) => Forward(tun[t].state, tun'[t].state)]_vars

\* C3: a step moves a tunnel forward in the order of the states, with three
\* exceptions: data arriving for a registered inbound tunnel that is neither
\* Established nor Expiring makes it Established; the onDrop closure of the
\* build message makes it BuildFailed whatever its state; and the build
\* response handler, when that closure ran between its two halves, still
\* ends with the state it decides.  An Expiring tunnel never becomes
\* Established, and no tunnel is BuildReplyReceived outside the handler that
\* entered the state.
C3_MonotoneButRevivalAndDrop ==
    /\ []BuildReplyReceivedIsTransient
    /\ [][\A t \in Obj :
            SameObject(t) =>
              \/ Forward(tun[t].state, tun'[t].state)
              \/ /\ tun'[t].state = Established
                 /\ tun[t].state \in {BuildFailed, Failed}
                 /\ IsInbound(tun[t]) /\ Registered(t)
              \/ /\ tun'[t].state = BuildFailed
                 /\ tun[t].onDrop /\ ~tun'[t].onDrop
              \/ /\ tun'[t].state = Established
                 /\ tun[t].state = BuildFailed
                 /\ t = replyTunnel /\ replyTunnel' = NoTunnel]_vars

\* A registered inbound tunnel turned Failed by the pool's test, which the
\* next data message makes Established again.
C3_Witness ==
    \E t \in Obj :
        /\ IsInbound(tun[t]) /\ Registered(t) /\ tun[t].state = Failed
        /\ \E u \in Obj : tun[u].state = Expiring

\* The entries of the pending maps that hold t, as <<direction, key>>.
PendingKeys(t) ==
    {<<"inbound", p[1]>> : p \in {q \in m_PendingInboundTunnels : q[2] = t}}
      \cup {<<"outbound", p[1]>> : p \in {q \in m_PendingOutboundTunnels : q[2] = t}}

\* t is held by the pending map of its direction under one key, and by
\* nothing else in the pending maps.
HeldOnce(t) ==
    /\ Cardinality(PendingKeys(t)) = 1
    /\ \A k \in PendingKeys(t) : k[1] = tun[t].kind

\* The step is a CreateTunnel that puts a new tunnel under a key of t.
Overwritten(t) ==
    \E k \in PendingKeys(t) : \E u \in Obj :
        /\ ~Constructed(u)
        /\ <<k[2], u>> \in (IF k[1] = "inbound" THEN m_PendingInboundTunnels'
                            ELSE m_PendingOutboundTunnels')

\* C4 as claimed: every Pending tunnel made by CreateTunnel is held by the
\* pending map of its direction under exactly one key.
C4_PendingHeldOnce ==
    \A t \in Obj : Built(t) /\ tun[t].state = Pending => HeldOnce(t)

\* C4: CreateTunnel puts the new tunnel, Pending, in the pending map of its
\* direction under one key; a tunnel is never held by the other map or under
\* a second key, and its key never changes.  A Pending tunnel leaves the map
\* while Pending only when a later CreateTunnel of the same direction draws
\* its reply-message-id and replaces it, or when the pending sweep erases it
\* as timed out (the sweep leaves the state Pending).
C4_PendingHeldUntilReplaced ==
    /\ [](\A t \in Obj : Constructed(t) /\ PendingKeys(t) # {} => Built(t) /\ HeldOnce(t))
    /\ [][\A t \in Obj :
            /\ ~Constructed(t) /\ Built(t)' =>
                 HeldOnce(t)' /\ tun'[t].state = Pending
            /\ Constructed(t) => PendingKeys(t)' \subseteq PendingKeys(t)
            /\ ( /\ SameObject(t) /\ HeldOnce(t)
                 /\ tun[t].state = Pending /\ tun'[t].state = Pending
                 /\ ~HeldOnce(t)' ) =>
                 \/ Overwritten(t)
                 \/ \E ts \in ClockValues :
                       /\ DeadlinePassed(ts, tun[t].created, TUNNEL_CREATION_TIMEOUT)
                       /\ DoManageTunnels(ts)]_vars

\* Two builds of one direction drew the same reply-message-id: the later one
\* is in the map, the earlier one is Pending and in no map.
C4_Witness ==
    \E t, u \in Obj :
        /\ t # u /\ Built(t) /\ tun[u].kind = tun[t].kind
        /\ tun[t].state = Pending /\ tun[u].state = Pending
        /\ PendingKeys(t) = {} /\ HeldOnce(u)

\* What the whole build-response handler leaves when every hop accepts.
AllAccept(n) == [ok |-> TRUE, codes |-> [i \in 1..n |-> 0]]

AcceptedOutbound(w, t) ==
    LET config == w.tun[t].config
    IN \A replyMsgID \in ReplyMsgIDs, tunnelID \in OutboundTunnelIDs, ts \in CreationClock,
          rnd \in RngValues :
         LET w2 == HandleBuildResponseFor(w, t, AllAccept(Len(config)),
                                           replyMsgID, tunnelID, ts, rnd)
         IN /\ w2.tun[t].state = Established
            /\ w2.ev = [i \in 1..Len(config) |->
                          <<"tunnelBuildResponse", t, config[i], 0>>]
            /\ w2.outb = Append(w.outb, t)
            /\ w2.reg = w.reg /\ w2.inb = w.inb

\* C5: a build reply whose message id is the key of a Pending outbound
\* tunnel in the pending-outbound map makes it BuildReplyReceived; the
\* response with every return code 0 then makes it Established, records one
\* tunnelBuildResponse(0) per hop from the first hop to the last, and
\* appends the tunnel to the outbound list, the registry left unchanged.
C5_OutboundReplyEstablishes ==
    /\ replyTunnel = NoTunnel =>
         \A msgID \in ReplyMsgIDs :
            LET t == MapFind(m_PendingOutboundTunnels, msgID)
                w1 == GetPendingTunnel(World, msgID, "outbound")
            IN t # NoTunnel /\ tun[t].state = Pending =>
                 /\ w1.ret = t
                 /\ w1.tun[t].state = BuildReplyReceived
                 /\ AcceptedOutbound(w1, t)
    /\ replyTunnel # NoTunnel /\ tun[replyTunnel].kind = "outbound" =>
         AcceptedOutbound(World, replyTunnel)

\* An outbound tunnel of two hops established by its build reply.
C5_Witness ==
    \E t \in Obj :
        /\ tun[t].kind = "outbound" /\ IsEstablished(tun[t])
        /\ tun[t].hops = <<"B", "A">> /\ ~tun[t].hasConfig
        /\ m_OutboundTunnels = <<t>> /\ ~Registered(t)

\* The well-formed responses for n hops in which some hop declines.
Declines(n) == {resp \in Responses(n) : resp.ok /\ \E i \in 1..n : resp.codes[i] # 0}

\* The pending entries, of both maps, whose tunnel satisfies P.
PendingWith(P(_)) ==
    {p \in m_PendingInboundTunnels : P(tun[p[2]])}
      \cup {p \in m_PendingOutboundTunnels : P(tun[p[2]])}

TimedOut(o, ts) == o.state = Pending /\ DeadlinePassed(ts, o.created, TUNNEL_CREATION_TIMEOUT)

\* What the handler leaves when the response declines, and what the next
\* pending sweep does with the tunnels that are BuildFailed.
DeclinedIsBuildFailed ==
    replyTunnel # NoTunnel =>
      \A resp \in Declines(Len(tun[replyTunnel].config)) :
      \A replyMsgID \in ReplyMsgIDs, tunnelID \in OutboundTunnelIDs, ts \in CreationClock,
         rnd \in RngValues :
         LET t == replyTunnel
             w == HandleBuildResponseFor(World, t, resp, replyMsgID, tunnelID, ts, rnd)
         IN /\ w.tun[t].state = BuildFailed
            /\ w.tun[t].hops = <<>> /\ w.tun[t].hasConfig
            /\ w.inb = m_InboundTunnels /\ w.outb = m_OutboundTunnels
            /\ w.reg = m_Tunnels
            /\ w.pin = m_PendingInboundTunnels /\ w.pout = m_PendingOutboundTunnels
            /\ w.succ = m_TotalNumSuccesiveTunnelCreations
            /\ w.fail = m_TotalNumFailedTunnelCreations

SweepCountsBuildFailed ==
    replyTunnel = NoTunnel =>
      \A ts \in ClockValues :
         LET w == ManagePendingTunnels(World, ts)
             failed == PendingWith(LAMBDA o : o.state = BuildFailed \/ TimedOut(o, ts))
             done == PendingWith(LAMBDA o : o.state \in {Established, Expiring, Failed})
         IN /\ \A p \in PendingWith(LAMBDA o : o.state = BuildFailed) :
                  p \notin w.pin \cup w.pout
            /\ w.fail = m_TotalNumFailedTunnelCreations + Cardinality(failed)
            /\ w.succ = m_TotalNumSuccesiveTunnelCreations + Cardinality(done)

\* A BuildFailed tunnel outside the registry, no handler running on it,
\* stays BuildFailed and outside the registry and the lists it is not in.
BuildFailedStays(t) ==
    ( /\ Built(t) /\ SameObject(t)
      /\ tun[t].state = BuildFailed /\ t # replyTunnel /\ ~Registered(t) ) =>
        /\ tun'[t].state = BuildFailed
        /\ ~Registered(t)'
        /\ InList(t)' => InList(t)

\* C6 as claimed: a declined tunnel is BuildFailed, in no list and not in
\* the registry, without hops, never Established, and it leaves the pending
\* map only in a pending sweep that counts it as failed.  (A BuildFailed
\* tunnel whose onDrop closure is alive was failed by the response handler.)
C6_DeclinedIsCounted ==
    /\ []DeclinedIsBuildFailed
    /\ []SweepCountsBuildFailed
    /\ [][\A t \in Obj :
            /\ BuildFailedStays(t)
            /\ ( /\ Built(t) /\ tun[t].state = BuildFailed /\ tun[t].onDrop
                 /\ PendingKeys(t) # {} /\ PendingKeys(t)' = {} ) =>
                 m_TotalNumFailedTunnelCreations' > m_TotalNumFailedTunnelCreations]_vars

\* C6: a declined tunnel is BuildFailed, in no list and not in the registry,
\* without hops, and is never Established; a pending sweep erases every
\* BuildFailed entry and counts it once as failed and not as a success.  The
\* tunnel leaves the pending map uncounted only when a later CreateTunnel of
\* the same direction draws its reply-message-id before the sweep.
C6_DeclinedIsCountedUnlessReplaced ==
    /\ []DeclinedIsBuildFailed
    /\ []SweepCountsBuildFailed
    /\ [][\A t \in Obj :
            /\ BuildFailedStays(t)
            /\ ( /\ Built(t) /\ tun[t].state = BuildFailed
                 /\ PendingKeys(t) # {} /\ PendingKeys(t)' = {} ) =>
                 \/ m_TotalNumFailedTunnelCreations' > m_TotalNumFailedTunnelCreations
                 \/ Overwritten(t)]_vars

\* A declined tunnel the sweep has erased and counted: BuildFailed with the
\* closure of its build message still alive, so not failed by a drop.
C6_Witness ==
    \E t \in Obj :
        /\ Built(t) /\ tun[t].state = BuildFailed /\ tun[t].onDrop
        /\ tun[t].hops = <<>> /\ PendingKeys(t) = {}
        /\ ~Registered(t) /\ ~InList(t)
        /\ m_TotalNumFailedTunnelCreations = 1
        /\ m_TotalNumSuccesiveTunnelCreations = 0

\* The events of a sweep that name tunnel t.
EventsOf(ev, t) == SelectSeq(ev, LAMBDA e : e[2] = t)

\* One ManagePendingTunnels pass at ts, where late(ts, created) says which
\* Pending tunnels are timed out: those are erased with one tunnelNonReplied
\* per hop and counted as failed, the others are left in place, no event.
SweepTimesOut(late(_, _)) ==
    replyTunnel = NoTunnel =>
      \A ts \in ClockValues :
         LET w == ManagePendingTunnels(World, ts)
             kept(p) == IF tun[p[2]].kind = "inbound" THEN p \in w.pin ELSE p \in w.pout
             isLate(o) == o.state = Pending /\ late(ts, o.created)
         IN /\ \A p \in PendingWith(LAMBDA o : o.state = Pending) :
                 LET t == p[2]
                     config == tun[t].config
                 IN IF isLate(tun[t])
                    THEN /\ ~kept(p)
                         /\ EventsOf(w.ev, t) =
                              [i \in 1..Len(config) |-> <<"tunnelNonReplied", t, config[i], 0>>]
                    ELSE kept(p) /\ EventsOf(w.ev, t) = <<>>
            /\ w.fail = m_TotalNumFailedTunnelCreations
                          + Cardinality(PendingWith(isLate))
                          + Cardinality(PendingWith(LAMBDA o : o.state = BuildFailed))

\* C7 as claimed: the timed-out tunnels are those with
\* ts > creationTime + TUNNEL_CREATION_TIMEOUT.
C7_SweepErasesOld ==
    SweepTimesOut(LAMBDA ts, created : ts > created + TUNNEL_CREATION_TIMEOUT)

\* C7: one ManagePendingTunnels pass at ts erases every Pending tunnel with
\* ts > creationTime + TUNNEL_CREATION_TIMEOUT, and also every one with
\* ts + TUNNEL_CREATION_TIMEOUT < creationTime (the clock went backward):
\* each hop gets one tunnelNonReplied and the failed counter grows by 1 for
\* the tunnel.  Every other Pending tunnel is left in place with no event.
C7_SweepErasesOldOrFuture ==
    SweepTimesOut(LAMBDA ts, created :
                    \/ ts > created + TUNNEL_CREATION_TIMEOUT
                    \/ ts + TUNNEL_CREATION_TIMEOUT < created)

\* A tunnel the sweep erased as timed out: still Pending (the closure of its
\* build message keeps it alive), in no map, counted as failed.
C7_Witness ==
    \E t \in Obj :
        /\ Built(t) /\ tun[t].state = Pending /\ tun[t].onDrop
        /\ PendingKeys(t) = {}
        /\ m_TotalNumFailedTunnelCreations = 1
        /\ \A u \in Obj : u # t => ~Built(u)

\* What Tunnel::HandleTunnelBuildResponse leaves of a tunnel whose config
\* was config, when it establishes it.
HopsOf(o, config) ==
    /\ o.state = Established
    /\ Len(o.hops) = Len(config)
    /\ \A i \in 1..Len(config) : GetInvertedPeers(o)[i] = config[Len(config) + 1 - i]
    /\ GetPeers(o) = config
    /\ ~o.hasConfig /\ o.config = <<>>

\* C13: a build response that establishes a tunnel gives it as many hops as
\* its config had, the last hop of the traversal first, and drops the
\* config in the same step; nothing else changes a hop list; and for every
\* tunnel GetPeers is GetInvertedPeers read backward.
C13_HopsAreInvertedConfig ==
    /\ [](\A t \in Obj :
            Constructed(t) =>
              LET o == tun[t]
                  n == Len(GetInvertedPeers(o))
              IN /\ Len(GetPeers(o)) = n
                 /\ \A i \in 1..n : GetPeers(o)[i] = GetInvertedPeers(o)[n + 1 - i]
                 /\ o.hops # <<>> => Built(t) /\ ~o.hasConfig)
    /\ [](replyTunnel # NoTunnel =>
            LET t == replyTunnel
                config == tun[t].config
                w == HandleTunnelBuildResponse(World, t, AllAccept(Len(config)))
            IN w.ret /\ HopsOf(w.tun[t], config))
    /\ [][\A t \in Obj :
            SameObject(t) /\ tun'[t].hops # tun[t].hops =>
              /\ tun[t].hops = <<>> /\ t = replyTunnel
              /\ HopsOf(tun'[t], tun[t].config)]_vars

\* An inbound tunnel built over A then B and established by its build
\* response: two hops, B first.
C13_Witness ==
    \E t \in Obj :
        /\ tun[t].kind = "inbound" /\ IsEstablished(tun[t])
        /\ GetInvertedPeers(tun[t]) = <<"B", "A">> /\ GetPeers(tun[t]) = <<"A", "B">>
        /\ ~tun[t].hasConfig /\ Registered(t)

(***************************************************************************)
(* Properties of the dispatcher.                                           *)
(***************************************************************************)
\* The tunnel ids of the maximal runs of messages with one id, in order.
RunHeadIDs(list) ==
    LET idx == SelectSeq([i \in 1..Len(list) |-> i],
                         LAMBDA i : i = 1 \/ list[i].id # list[i - 1].id)
    IN [k \in 1..Len(idx) |-> list[idx[k]].id]

\* Every message the wake has taken is a TunnelData message of a registered
\* tunnel.
DataForRegistered(list) ==
    \A i \in 1..Len(list) :
        list[i].type = "data" /\ GetTunnel(World, list[i].id) # NoTunnel

\* C8: while a wake has taken only TunnelData messages of registered
\* tunnels, the ids it looked up are the ids of the maximal runs, one lookup
\* per run; every run but the last has had one flush, when the id changed;
\* and once the wake is over the last run's tunnel has had one flush too.
C8_OneLookupAndFlushPerRun ==
    DataForRegistered(wakeMsgs) =>
      LET heads == RunHeadIDs(wakeMsgs)
          tunnels == [k \in 1..Len(heads) |-> GetTunnel(World, heads[k])]
      IN /\ lookups = heads
         /\ flushes = IF inLoop THEN SubSeq(tunnels, 1, Len(tunnels) - 1) ELSE tunnels

\* A finished wake over messages for tunnel 1 and then for tunnel 2, three in
\* all: lookups 1, 2; a flush of 1; a last flush of 2.
C8_Witness ==
    /\ ~inLoop /\ Len(wakeMsgs) = 3 /\ DataForRegistered(wakeMsgs)
    /\ RunHeadIDs(wakeMsgs) = <<1, 2>>
    /\ lookups = <<1, 2>> /\ flushes = <<1, 2>>

\* C9: two messages handed to the handler of one tunnel id are handed over
\* in the order in which they were put on the queue.
C9_PerTunnelFifo ==
    \A i, j \in 1..Len(handled) :
        i < j /\ handled[i].msg.id = handled[j].msg.id =>
          handled[i].msg.seq < handled[j].msg.seq

\* Messages of one tunnel handled out of three drains, the second and third
\* being a re-drain of the wake of the first or a later wake.
C9_Witness ==
    \E i, j, k \in 1..Len(handled) :
        /\ i < j /\ j < k
        /\ handled[i].msg.id = handled[j].msg.id /\ handled[j].msg.id = handled[k].msg.id
        /\ handled[i].drain < handled[j].drain /\ handled[j].drain < handled[k].drain
        /\ inLoop /\ numMsgs > 0

(***************************************************************************)
(* Properties of the build message.                                        *)
(***************************************************************************)
\* C10: Build writes the record count R, 4 for up to 4 hops and 8 for more;
\* the hops have pairwise distinct record indices in 0 .. R-1; the R - H
\* slots no hop has are exactly those holding a fake record; and every slot
\* is written once, a hop's slot by that hop.
C10_RecordLayout ==
    built =>
      LET R == IF numHops <= STANDARD_NUM_RECORDS THEN STANDARD_NUM_RECORDS
               ELSE MAX_NUM_RECORDS
          slots == 0..(R - 1)
          assigned == {recordIndex[k] : k \in 1..numHops}
          fake == {idx \in slots :
                     \E i \in 1..Len(records[idx]) : records[idx][i] = FakeRecord}
      IN /\ numRecords = R /\ DOMAIN records = slots
         /\ \A k \in 1..numHops : recordIndex[k] \in slots
         /\ \A k, l \in 1..numHops : k # l => recordIndex[k] # recordIndex[l]
         /\ fake = slots \ assigned
         /\ Cardinality(fake) = R - numHops
         /\ \A k \in 1..numHops : records[recordIndex[k]] = <<k>>
         /\ \A idx \in fake : records[idx] = <<FakeRecord>>

\* A build of five hops: eight slots, three of them fake, the first hop not
\* in slot 0.
C10_Witness ==
    /\ built /\ numHops = 5 /\ numRecords = 8
    /\ recordIndex[1] # 0
    /\ Cardinality({idx \in 0..7 : records[idx] = <<FakeRecord>>}) = 3

\* The slots of the hops, and the slots of the fake records.
HopSlots == {recordIndex[k] : k \in 1..numHops}
FakeSlots == (DOMAIN records) \ HopSlots

\* C11: when Build has decrypted the real records, the slot of hop j carries
\* the layers of the hops j-1, ..., 1 before it, the first hop's outermost,
\* the slot of the first hop carries none and no fake slot carries any; and
\* when the hops handle the message in traversal order, each undoing its
\* layer on the records of the others, every hop finds its record in its
\* slot without a layer on it.
C11_BuildLayering ==
    built =>
      /\ found = <<>> =>
            /\ \A j \in 1..numHops :
                  layers[recordIndex[j]] = [i \in 1..(j - 1) |-> <<"D", j - i>>]
            /\ \A idx \in FakeSlots : layers[idx] = <<>>
      /\ \A j \in 1..Len(found) : found[j] = <<>>

\* Five hops have handled a build message of eight records, the fifth hop's
\* record in slot 0.
C11_Witness ==
    /\ built /\ numHops = 5 /\ Len(found) = 5 /\ peeled = "no"
    /\ recordIndex[5] = 0 /\ found[5] = <<>>

\* C12: in the reply every hop's slot holds its reply under its own reply
\* layer and, over it, the layers of the hops after it in traversal order;
\* the first loop of HandleTunnelBuildResponse removes from every hop's slot
\* the layers of the later hops, the last hop's first, and then the hop's
\* own reply layer, each once: it succeeds and leaves every hop's slot
\* without a layer.
C12_ResponsePeeling ==
    /\ (built /\ Len(found) = numHops /\ peeled = "no") =>
         \A j \in 1..numHops :
            layers[recordIndex[j]] =
              <<<<"R", j>>>> \o [i \in 1..(numHops - j) |-> <<"E", j + i>>]
    /\ peeled # "no" =>
         /\ peeled = "ok"
         /\ \A j \in 1..numHops : layers[recordIndex[j]] = <<>>

\* The reply of five hops, peeled.
C12_Witness ==
    /\ peeled = "ok" /\ numHops = 5 /\ Len(found) = 5
    /\ \A j \in 1..5 : layers[recordIndex[j]] = <<>>
    /\ \E idx \in FakeSlots : Len(layers[idx]) = 5

(***************************************************************************)
(* Properties of the maintenance sweeps (specification SpecSweep).         *)
(***************************************************************************)
\* What lines 905-920 are to leave behind, from w (the state after the
\* loop, with an empty inbound list) to r: one new zero-hop inbound tunnel,
\* alone in the inbound list and (when registered says so) in the registry
\* under its id, one new zero-hop outbound tunnel at the end of the outbound
\* list and in no registry entry, both Established, the exploratory pool
\* present, and CreateTunnelPool called exactly when there was none.
ZeroHopsFallbackDone(w, r, registered) ==
    \E ti, to \in FreeObjs(w) :
       /\ ti # to
       /\ r.inb = <<ti>>
       /\ r.tun[ti].kind = "zeroInbound" /\ IsEstablished(r.tun[ti])
       /\ registered => <<r.tun[ti].id, ti>> \in r.reg
       /\ r.outb = Append(w.outb, to)
       /\ r.tun[to].kind = "zeroOutbound" /\ IsEstablished(r.tun[to])
       /\ \A p \in r.reg : p[2] # to
       /\ r.reg \ w.reg \subseteq {<<r.tun[ti].id, ti>>}
       /\ w.reg \subseteq r.reg
       /\ r.expl
       /\ Len(EventsOf(r.calls, NoTunnel)) = Len(EventsOf(w.calls, NoTunnel))
                                             + (IF w.expl THEN 0 ELSE 1)

\* ManageInboundTunnels at every clock reading and with every id the
\* zero-hop configs may draw, in the current state.
FallbackAfterSweep(registered(_, _)) ==
    replyTunnel = NoTunnel =>
      \A ts \in ClockValues :
         LET w == InboundLoop(World, World.inb, ts)
         IN \A in \in InboundInputs(w) :
              LET r == InboundFallback(w, ts, in)
              IN IF w.inb = <<>>
                 THEN r.ok => ZeroHopsFallbackDone(w, r, registered(w, in))
                 ELSE /\ r.expl = w.expl
                      /\ \A t \in Obj : r.tun[t].kind \notin {"zeroInbound", "zeroOutbound"}
                                        \/ r.tun[t] = w.tun[t]

Always(w, in) == TRUE
IdIsFree(w, in) == GetTunnel(w, in.tunnelID) = NoTunnel

\* C14: whenever ManageInboundTunnels finds the inbound list empty after
\* its sweep, it creates one zero-hop inbound tunnel, in the inbound list and
\* in the dispatch registry, and one zero-hop outbound tunnel, in the
\* outbound list only, both Established, and creates the exploratory pool
\* exactly when there is none yet.
C14_FallbackRegistersZeroHops == FallbackAfterSweep(Always)

\* The same, with the registry entry promised only when the id drawn for the
\* inbound tunnel is the id of no registered tunnel; and the exploratory
\* pool, once created, stays, so that it is created at most once.
ZeroHopsFallbackUnlessCollision ==
    /\ [](FallbackAfterSweep(IdIsFree))
    /\ [][m_ExploratoryPool => m_ExploratoryPool']_vars

\* A maintenance tick drew for its zero-hop inbound tunnel the id of a
\* registered transit tunnel: the tunnel is in the inbound list and no
\* registry entry names it.
C14_UnregisteredZeroHops ==
    \E t \in Obj :
       /\ tun[t].kind = "zeroInbound" /\ tun[t].pool = "none"
       /\ m_InboundTunnels = <<t>>
       /\ ~Registered(t)
       /\ \E u \in Obj : tun[u].kind = "transit" /\ <<tun[t].id, u>> \in m_Tunnels
       /\ \E u \in Range(m_OutboundTunnels) : tun[u].kind = "zeroOutbound"
       /\ m_ExploratoryPool

\* AddInboundTunnel as the build handler calls it (lines 683-684): on the
\* tunnel of the running handler, its response accepted by every hop and its
\* state set to Established; with every id, clock reading and m_Rng value.
\* config is the tunnel's config before the response, w the state before
\* AddInboundTunnel and r the one after.
AddedInbound(outcome(_, _, _, _, _, _)) ==
    (replyTunnel # NoTunnel /\ tun[replyTunnel].kind = "inbound"
                            /\ tun[replyTunnel].hasConfig) =>
      LET t == replyTunnel
          config == tun[t].config
          w == SetStateOf(HandleTunnelBuildResponse(World, t, AllAccept(Len(config))),
                          t, Established)
      IN \A replyMsgID \in ReplyMsgIDs, tunnelID \in OutboundTunnelIDs :
         \A ts \in CreationClock, rnd \in RngValues :
            LET r == AddInboundTunnel(w, t, replyMsgID, tunnelID, ts, rnd)
            IN r.ok => outcome(w, r, t, config, replyMsgID, rnd)

\* Nothing but the listed objects differs between w and r.
OnlyChanged(w, r, objs) == \A u \in Obj \ objs : r.tun[u] = w.tun[u]

AddInboundTunnelOutcome(w, r, t, config, replyMsgID, rnd) ==
    LET id == w.tun[t].id
    IN IF GetTunnel(w, id) # NoTunnel
       THEN \* duplicate id
            /\ r.inb = w.inb /\ r.pin = w.pin /\ r.pout = w.pout
            /\ r.reg = w.reg /\ r.tun = w.tun /\ r.calls = w.calls
       ELSE /\ r.inb = Append(w.inb, t)
            /\ r.reg = w.reg \cup {<<id, t>>}
            /\ r.pin = w.pin
            /\ CASE w.tun[t].pool = "none" ->
                      \E n \in FreeObjs(w) :
                         /\ OnlyChanged(w, r, {n})
                         /\ r.tun[n].kind = "outbound" /\ r.tun[n].state = Pending
                         /\ r.tun[n].pool = "none"
                         /\ r.tun[n].config = Reverse(config)
                         /\ Head(r.tun[n].config) = config[Len(config)]
                         /\ r.pout = MapAssign(w.pout, replyMsgID, n)
                         /\ r.calls = Append(w.calls,
                              <<"SendBuild", n, GetNextOutboundTunnel(w.outb, w.tun, rnd)>>)
                 [] w.tun[t].pool # "none" /\ w.active ->
                      /\ r.tun = w.tun /\ r.pout = w.pout
                      /\ r.calls = Append(w.calls, <<"TunnelCreated", t>>)
                 [] OTHER ->
                      /\ OnlyChanged(w, r, {t})
                      /\ r.tun[t] = [w.tun[t] EXCEPT !.pool = "none"]
                      /\ r.pout = w.pout /\ r.calls = w.calls

\* C15: AddInboundTunnel on a tunnel with a free id and no pool appends it
\* to the inbound list and starts exactly one new pending outbound tunnel
\* over the inbound tunnel's hops in reversed traversal order, its build
\* message sent through the tunnel GetNextOutboundTunnel returns; with an
\* active pool it notifies TunnelCreated and builds nothing, with an
\* inactive pool it detaches the tunnel from the pool, and with a taken id
\* it changes neither the inbound list nor the pending maps.
C15_AddInboundTunnel == AddedInbound(AddInboundTunnelOutcome)

\* The handler has added a two-hop inbound tunnel without a pool, and its
\* symmetric outbound tunnel is pending over the same hops, last hop first.
C15_Witness ==
    \E t, n \in Obj :
       /\ tun[t].kind = "inbound" /\ tun[t].pool = "none" /\ IsEstablished(tun[t])
       /\ t \in Range(m_InboundTunnels) /\ Registered(t)
       /\ Len(tun[t].hops) = 2
       /\ tun[n].kind = "outbound" /\ tun[n].state = Pending
       /\ tun[n].config = tun[t].hops
       /\ tun[n].config = <<"B", "A">>
       /\ \E p \in m_PendingOutboundTunnels : p[2] = n

(***************************************************************************)
(* Properties of the zero-hop send paths (specification SpecZeroHops).     *)
(***************************************************************************)
RECURSIVE SumLen(_)
SumLen(list) == IF list = <<>> THEN 0 ELSE Head(list).len + SumLen(Tail(list))

\* The messages (length and number) tunnel by has passed on, in order, and
\* the ones it has counted.
DeliveredBy(by) ==
    LET own == SelectSeq(delivered, LAMBDA d : d.by = by)
    IN [i \in 1..Len(own) |-> [len |-> own[i].msg.len, seq |-> own[i].msg.seq]]
CountedBy(by) ==
    LET own == SelectSeq(counted, LAMBDA c : c[1] = by)
    IN [i \in 1..Len(own) |-> [len |-> own[i][2].len, seq |-> own[i][2].seq]]

\* A null message, or a block without data, changes nothing.
NullChangesNothing ==
    /\ SendTunnelDataMsg(SendState, NullMsg) = SendState
    /\ \A ty \in DeliveryTypes :
          SendTunnelDataMsgs(SendState, <<[data |-> NullMsg, deliveryType |-> ty]>>) = SendState

CountersAreDelivered ==
    /\ m_NumReceivedBytes = SumLen(DeliveredBy("inbound"))
    /\ m_NumSentBytes = SumLen(DeliveredBy("outbound"))

\* C16: each zero-hop counter is the sum of the lengths of the messages its
\* tunnel has passed on (to the local handler or to the transports); every
\* counted message is passed on exactly once and as it came; a null message
\* changes nothing; no message is counted without being passed on, whatever
\* its delivery type.
C16_ZeroHopFidelity ==
    /\ CountersAreDelivered
    /\ CountedBy("inbound") = DeliveredBy("inbound")
    /\ CountedBy("outbound") = DeliveredBy("outbound")
    /\ NullChangesNothing

\* What holds of the code: the inbound half, the null messages, and of the
\* outbound tunnel that what it passes on is what it counted less the
\* blocks of a delivery type the switch does not know.
ZeroHopFidelityOfKnownTypes ==
    /\ m_NumReceivedBytes = SumLen(DeliveredBy("inbound"))
    /\ CountedBy("inbound") = DeliveredBy("inbound")
    /\ m_NumSentBytes = SumLen(CountedBy("outbound"))
    /\ NullChangesNothing
    /\ \A b \in Blocks(numSends + 1) :
          LET r == SendBlock(SendState, b)
              to == IF b.deliveryType = "Local" THEN "local" ELSE "transport"
          IN b.data # NullMsg =>
               /\ r.sent = m_NumSentBytes + b.data.len
               /\ r.counted = Append(counted, <<"outbound", b.data>>)
               /\ r.delivered =
                    IF b.deliveryType = "Unknown" THEN delivered
                    ELSE Append(delivered, [by |-> "outbound", to |-> to, msg |-> b.data])

\* The outbound tunnel was handed a block of an unknown delivery type: its
\* bytes are in m_NumSentBytes and the message went nowhere.
C16_CountedNotDelivered ==
    /\ m_NumSentBytes > SumLen(DeliveredBy("outbound"))
    /\ \E i \in 1..Len(counted) :
          /\ counted[i][1] = "outbound"
          /\ \A j \in 1..Len(delivered) : delivered[j].msg.seq # counted[i][2].seq

(***************************************************************************)
(* Properties of Stop (specification SpecStop).                            *)
(***************************************************************************)
\* C17: after Stop is called on a started dispatcher the worker loop
\* exits and Stop's join returns, whatever is on the queue and while the
\* producers keep putting messages: within one wake the queue is taken
\* again only while fewer than MAX_TUNNEL_MSGS_BATCH_SIZE messages have
\* been handled, so the worker always comes back to the test of m_IsRunning.
C17_StopTerminates ==
    /\ (stopper = "called") ~> (stopper = "joined" /\ worker = "exited")
    /\ (worker = "loop") ~> (worker \in {"check", "exited"})
    /\ [][(worker = "loop" /\ worker' = "loop" /\ m_Queue # <<>> /\ m_Queue' = <<>>)
             => numMsgs' < MAX_TUNNEL_MSGS_BATCH_SIZE]_vars
    /\ [](stopper = "joined" => worker = "exited" /\ ~m_IsRunning)

\* Stop has returned after a wake that handled a full batch, with messages
\* still on the queue.
C17_Witness ==
    /\ stopper = "joined" /\ worker = "exited"
    /\ numMsgs = MAX_TUNNEL_MSGS_BATCH_SIZE
    /\ m_Queue # <<>>

(***************************************************************************)
(* Properties of the pending sweep (specification Spec).                   *)
(***************************************************************************)
\* ManagePendingTunnels at every clock reading, in the current state, the
\* one inside a build handler included: it erases the entries of the
\* tunnels that are BuildFailed, or Pending and timed out (one more failed
\* creation each), and of those in any state but Pending, BuildFailed and
\* BuildReplyReceived (one more successful creation each), leaves every
\* other entry and changes no tunnel.
PendingSweepCounts ==
    \A ts \in ClockValues :
       LET r == ManagePendingTunnels(World, ts)
           before == m_PendingInboundTunnels \cup m_PendingOutboundTunnels
           erased == before \ (r.pin \cup r.pout)
           failed == {p \in before : \/ tun[p[2]].state = BuildFailed
                                     \/ TimedOut(tun[p[2]], ts)}
           succeeded == {p \in before :
                           tun[p[2]].state \notin {Pending, BuildFailed, BuildReplyReceived}}
       IN /\ r.pin \subseteq m_PendingInboundTunnels
          /\ r.pout \subseteq m_PendingOutboundTunnels
          /\ erased = failed \cup succeeded
          /\ \A p \in erased : tun[p[2]].state # BuildReplyReceived
          /\ r.fail = m_TotalNumFailedTunnelCreations + Cardinality(failed)
          /\ r.succ = m_TotalNumSuccesiveTunnelCreations + Cardinality(succeeded)
          /\ r.fail + r.succ = m_TotalNumFailedTunnelCreations
                               + m_TotalNumSuccesiveTunnelCreations + Cardinality(erased)
          /\ r.tun = tun

\* The tunnels CreateTunnel has made that no pending map holds any more.
LeftPending ==
    {t \in Obj : tun[t].kind \in {"inbound", "outbound", "destroyed"} /\ PendingKeys(t) = {}}

\* C18: over builds, replies, drops and maintenance ticks a tunnel put into
\* a pending map is erased from it at most once; each erasure of the sweep
\* adds one to exactly one counter, the failed one for a tunnel that is
\* BuildFailed or Pending and timed out, the successful one for any other
\* state; a tunnel in BuildReplyReceived is not erased by the sweep; the two
\* counters together are the number of tunnels the sweeps have erased, and
\* no tunnel is counted twice.
C18_PendingErasedAndCountedOnce ==
    /\ []PendingSweepCounts
    /\ [](\A t \in Obj : Cardinality(PendingKeys(t)) <= 1)
    /\ [](m_TotalNumFailedTunnelCreations + m_TotalNumSuccesiveTunnelCreations
            <= Cardinality(LeftPending))
    /\ [][\A t \in Obj : Constructed(t) /\ PendingKeys(t) = {} => PendingKeys(t)' = {}]_vars
    /\ [][(\/ m_TotalNumFailedTunnelCreations' # m_TotalNumFailedTunnelCreations
           \/ m_TotalNumSuccesiveTunnelCreations' # m_TotalNumSuccesiveTunnelCreations)
            => \E ts \in ClockValues :
                 LET r == ManagePendingTunnels(World, ts)
                 IN /\ m_TotalNumFailedTunnelCreations' = r.fail
                    /\ m_TotalNumSuccesiveTunnelCreations' = r.succ
                    /\ replyTunnel = NoTunnel]_vars

\* The sweeps have erased two tunnels, one counted as failed and one as
\* successful, and the pending maps are empty.
C18_Witness ==
    /\ m_TotalNumFailedTunnelCreations = 1
    /\ m_TotalNumSuccesiveTunnelCreations = 1
    /\ m_PendingInboundTunnels = {} /\ m_PendingOutboundTunnels = {}
    /\ \E t, u \in Obj : /\ t # u /\ Built(t) /\ Built(u)
                         /\ IsEstablished(tun[t]) /\ tun[u].state # Established

(***************************************************************************)
(* Properties of the expiry sweeps (specification Spec).                   *)
(***************************************************************************)
\* The TunnelExpired calls among the calls.
ExpiredCalls(calls, t) ==
    Len(SelectSeq(calls, LAMBDA c : c[1] = "TunnelExpired" /\ c[2] = t))

\* The remaining tunnels of a list after a sweep at ts: none Failed, none
\* past its expiry; and one TunnelExpired per removed tunnel with a pool.
SweptList(before, after, r, ts) ==
    /\ \A t \in Range(after) :
          /\ t \in Range(before)
          /\ ~IsFailed(r.tun[t])
          /\ ~(ts > r.tun[t].created + TUNNEL_EXPIRATION_TIMEOUT)
    /\ \A t \in Range(before) \ Range(after) :
          /\ IsFailed(tun[t]) \/ DeadlinePassed(ts, tun[t].created, TUNNEL_EXPIRATION_TIMEOUT)
          /\ ExpiredCalls(r.calls, t) = (IF tun[t].pool # "none" THEN 1 ELSE 0)
    /\ \A t \in Range(after) : ExpiredCalls(r.calls, t) = 0

\* The loops of ManageInboundTunnels and ManageOutboundTunnels at every
\* clock reading, in the current state; registryAfter says what the inbound
\* loop is to leave of the registry, given the tunnels it removed.
ExpirySweeps(registryAfter(_)) ==
    replyTunnel = NoTunnel =>
      \A ts \in ClockValues :
         LET wi == InboundLoop(World, m_InboundTunnels, ts)
             wo == OutboundLoop(World, m_OutboundTunnels, ts)
             removed == Range(m_InboundTunnels) \ Range(wi.inb)
         IN /\ SweptList(m_InboundTunnels, wi.inb, wi, ts)
            /\ SweptList(m_OutboundTunnels, wo.outb, wo, ts)
            /\ \A t \in removed : GetTunnel(wi, tun[t].id) = NoTunnel
            /\ wi.reg = registryAfter(removed)
            /\ wo.reg = m_Tunnels
            /\ wi.outb = m_OutboundTunnels /\ wo.inb = m_InboundTunnels

\* The registry less the entries of the removed tunnels themselves.
LessTheirEntries(removed) == m_Tunnels \ {<<tun[t].id, t>> : t \in removed}
\* The registry less every entry under an id of a removed tunnel.
LessTheirIds(removed) == {p \in m_Tunnels : \A t \in removed : p[1] # tun[t].id}

\* C19: after a sweep at ts no tunnel left in the inbound or outbound list
\* is Failed or older than TUNNEL_EXPIRATION_TIMEOUT; each removed tunnel
\* with a pool gets exactly one TunnelExpired; a removed inbound tunnel's id
\* is gone from the registry, and no other tunnel's registry entry is.
C19_SweepRemovesOwnEntries == ExpirySweeps(LessTheirEntries)

\* What holds of the code: the same, with the registry losing whatever
\* tunnel is registered under a removed tunnel's id.
SweepRemovesById == ExpirySweeps(LessTheirIds)

\* The sweep about to run expires an inbound tunnel that is not the one
\* registered under its id, and takes the registry entry of that other
\* tunnel, which stays in the inbound list.
C19_EntryOfAnotherRemoved ==
    /\ replyTunnel = NoTunnel
    /\ \E ts \in ClockValues :
          LET wi == InboundLoop(World, m_InboundTunnels, ts)
              removed == Range(m_InboundTunnels) \ Range(wi.inb)
          IN \E p \in m_Tunnels \ wi.reg :
                /\ p[2] \notin removed
                /\ p[2] \in Range(wi.inb)
                /\ \E t \in removed : tun[t].id = p[1] /\ ~Registered(t)

(***************************************************************************)
(* Properties of the recreation (specification Spec).                      *)
(***************************************************************************)
\* Hop counts the pool may be configured with when a tick runs.
PoolHopCounts == {[inb |-> 2, outb |-> 1], [inb |-> 0, outb |-> 2]}

\* The RecreateInboundTunnel / RecreateOutboundTunnel calls for t.
RecreateCalls(calls, t, name) ==
    Len(SelectSeq(calls, LAMBDA c : c[1] = name /\ c[2] = t))

\* t, as the tick at ts finds it with the pool configured to nhops, is to
\* be recreated: listed and not swept out, Established, not recreated yet,
\* within TUNNEL_RECREATION_THRESHOLD of its expiry, with a pool, and of the
\* pool's hop count for its direction.
DueForRecreation(t, ts, nhops) ==
    /\ InList(t)
    /\ ~IsFailed(tun[t])
    /\ ~DeadlinePassed(ts, tun[t].created, TUNNEL_EXPIRATION_TIMEOUT)
    /\ IsEstablished(tun[t])
    /\ ~tun[t].recreated
    /\ ts + TUNNEL_RECREATION_THRESHOLD > tun[t].created + TUNNEL_EXPIRATION_TIMEOUT
    /\ tun[t].pool # "none"
    /\ GetNumHops(tun[t]) = (IF IsInbound(tun[t]) THEN nhops.inb ELSE nhops.outb)

\* One tick at every clock reading, pool configuration and fallback input:
\* the pool is asked once to recreate each tunnel that is due, by the call
\* of the tunnel's direction, and the tunnel is marked recreated; no other
\* tunnel is recreated or changes its mark.
TickRecreatesDue ==
    replyTunnel = NoTunnel =>
      \A ts \in ClockValues, nhops \in PoolHopCounts :
         LET w == [World EXCEPT !.nhops = nhops]
             wl == InboundLoop(ManagePendingTunnels(w, ts), w.inb, ts)
         IN \A in1 \in InboundInputs(wl) :
              LET w2 == InboundFallback(wl, ts, in1)
                  wo == OutboundLoop(w2, w2.outb, ts)
              IN \A in2 \in OutboundInputs(wo) :
                   LET r == ManageTunnels(w, ts, in1, in2)
                   IN \A t \in Obj :
                        (r.ok /\ Constructed(t)) =>
                          LET own == IF IsInbound(tun[t]) THEN "RecreateInboundTunnel"
                                     ELSE "RecreateOutboundTunnel"
                              other == IF IsInbound(tun[t]) THEN "RecreateOutboundTunnel"
                                       ELSE "RecreateInboundTunnel"
                          IN /\ RecreateCalls(r.calls, t, other) = 0
                             /\ IF DueForRecreation(t, ts, nhops)
                                THEN /\ RecreateCalls(r.calls, t, own) = 1
                                     /\ r.tun[t].recreated
                                ELSE /\ RecreateCalls(r.calls, t, own) = 0
                                     /\ r.tun[t].recreated = tun[t].recreated

\* C20: over the maintenance ticks the pool's RecreateInboundTunnel /
\* RecreateOutboundTunnel is called at most once per tunnel, and only for a
\* tunnel that at the tick is Established, not recreated yet, within
\* TUNNEL_RECREATION_THRESHOLD of its expiry, has a pool and has the pool's
\* hop count for its direction; a tunnel without a pool, or already
\* Expiring, is not recreated and its recreated flag does not change.
C20_RecreatedOnceWhenDue ==
    /\ []TickRecreatesDue
    /\ [][\A t \in Obj :
            SameObject(t) =>
              /\ tun[t].recreated => tun'[t].recreated
              /\ (tun'[t].recreated /\ ~tun[t].recreated) =>
                    /\ \E ts \in ClockValues : DueForRecreation(t, ts, poolNumHops)
                    /\ replyTunnel = NoTunnel
              /\ (tun[t].pool = "none" \/ tun[t].state = Expiring) =>
                    tun'[t].recreated = tun[t].recreated]_vars
    /\ [](\A t \in Obj : ~Constructed(t) => ~tun[t].recreated)

\* A tick has asked the pool to recreate an inbound tunnel and marked it
\* Expiring in the same pass.
C20_Witness ==
    \E t \in Range(m_InboundTunnels) :
       /\ tun[t].recreated /\ tun[t].state = Expiring
       /\ tun[t].pool # "none"
       /\ GetNumHops(tun[t]) = poolNumHops.inb
(***************************************************************************)
(* C21: the flush of every tunnel a wake has handed a message.             *)
(***************************************************************************)
\* The dispatcher is back at Queue::Wait with nothing left of the wake, and a
\* tunnel was handed a TunnelData or TunnelGateway message in the wake.
WakeOverWithData == ~inLoop /\ \E i \in 1..Len(handled) : handled[i].msg \in Range(wakeMsgs)

\* C21: once a wake is over, every tunnel it handed a TunnelData or
\* TunnelGateway message has had FlushTunnelDataMsgs called on it after the
\* last of them, whatever the other messages of the wake were.
C21_EveryTunnelFlushed == ~inLoop => unflushed = {}

\* The same for the wakes the code does flush: those in which every message
\* taken is a TunnelData or TunnelGateway message (of a registered tunnel or
\* not).
FlushedWhenOnlyData ==
    (~inLoop /\ \A i \in 1..Len(wakeMsgs) : wakeMsgs[i].type \in {"data", "gateway"})
      => unflushed = {}

\* A wake that is over: a message for tunnel 1, then a build message, then a
\* message for tunnel 2; tunnel 1 was handed its message and never flushed.
C21_UnflushedAfterBuildMsg ==
    /\ WakeOverWithData /\ Len(wakeMsgs) = 3
    /\ wakeMsgs[1].type = "data" /\ wakeMsgs[1].id = 1
    /\ wakeMsgs[2].type = "build"
    /\ wakeMsgs[3].type = "data" /\ wakeMsgs[3].id = 2
    /\ flushes = <<2>> /\ unflushed = {1}

(***************************************************************************)
(* C22: which messages a build response is taken from.                     *)
(***************************************************************************)
\* The lookup of the three handlers on a message with this id, for the map
\* of this direction: a Pending tunnel under the id is returned, of that
\* direction, BuildReplyReceived and otherwise as it was; any other message
\* gets no tunnel and changes nothing.
LookupOf(msgID, kind) ==
    LET t == MapFind(PendingMap(World, kind), msgID)
        w == GetPendingTunnel(World, msgID, kind)
    IN IF t # NoTunnel /\ tun[t].state = Pending
       THEN /\ w.ret = t /\ tun[t].kind = kind
            /\ w = [World EXCEPT !.ret = t, !.tun[t].state = BuildReplyReceived]
       ELSE w = [World EXCEPT !.ret = NoTunnel]

\* A handler takes up a tunnel only in a step that finds it Pending in the
\* pending map of the message's direction.
TakenUpWhilePending(t) ==
    replyTunnel # t /\ replyTunnel' = t =>
      /\ tun[t].state = Pending /\ tun'[t].state = BuildReplyReceived
      /\ \/ tun[t].kind = "inbound" /\ (\E p \in m_PendingInboundTunnels : p[2] = t)
            /\ \E msgID \in ReplyMsgIDs : HandleTunnelBuildMsg(msgID)
         \/ tun[t].kind = "outbound" /\ (\E p \in m_PendingOutboundTunnels : p[2] = t)
            /\ \E msgID \in ReplyMsgIDs : HandleTunnelBuildReplyMsg(msgID)

\* The step that applies the response is the second half of the handler that
\* took the tunnel up, and leaves every other tunnel as it was.
AppliedToTakenUp(t) ==
    replyTunnel = t /\ replyTunnel' # t =>
      /\ replyTunnel' = NoTunnel
      /\ \A u \in Obj \ {t} : SameObject(u) => tun'[u] = tun[u]

\* C22: a build message is matched against the pending inbound map and a
\* build reply against the pending outbound map; the response is applied
\* only to a tunnel the lookup found Pending there, which is Pending never
\* again, so at most once; a message whose id is the key of a tunnel in any
\* other state, or of no entry, changes nothing.
C22_ResponseOnlyWhilePending ==
    /\ [](replyTunnel = NoTunnel =>
            \A msgID \in ReplyMsgIDs, kind \in {"inbound", "outbound"} : LookupOf(msgID, kind))
    /\ [][\A t \in Obj :
            /\ TakenUpWhilePending(t)
            /\ AppliedToTakenUp(t)
            /\ SameObject(t) /\ tun[t].state # Pending => tun'[t].state # Pending]_vars

\* Between two worker steps: an inbound tunnel its response has established
\* and an outbound tunnel its response has failed, both still under their
\* keys in the pending maps, where a second message with the key finds them.
C22_Witness ==
    /\ replyTunnel = NoTunnel
    /\ \E p \in m_PendingInboundTunnels, q \in m_PendingOutboundTunnels :
          /\ tun[p[2]].state = Established
          /\ tun[q[2]].state = BuildFailed /\ tun[q[2]].onDrop
          /\ GetPendingTunnel(World, p[1], "inbound").ret = NoTunnel
          /\ GetPendingTunnel(World, q[1], "outbound").ret = NoTunnel

(***************************************************************************)
(* C23, C24: the build response as received.                               *)
(***************************************************************************)
\* What the handler that holds replyTunnel leaves of every message of the
\* given kind.
ResponsesWith(kind(_, _, _), outcome(_, _, _, _, _)) ==
    replyTunnel # NoTunnel =>
      LET t == replyTunnel
          n == Len(tun[t].config)
      IN \A msg \in ResponseMsgs(n), index \in RecordIndexes(n) :
           kind(msg, index, n) =>
             outcome(msg, index, n, HandleTunnelBuildResponseMsg(World, t, msg, index),
                     HandleBuildResponseMsgFor(World, t, msg, index, 1, 1, 1000, 0))

\* DecryptBuildResponseRecord of some hop's own record has failed.
DecryptFailed(msg, index, n) == RejectedAt(msg, index, n) = 153

\* The handler's tunnel ends BuildFailed, and every hop with an identity has
\* one tunnelBuildResponse event, first hop to last.
FailedAndCredited(msg, index, n, w1, w) ==
    LET t == replyTunnel
        config == tun[t].config
    IN /\ w.tun[t].state = BuildFailed
       /\ Len(w.ev) = Len(config)
       /\ \A i \in 1..Len(w.ev) :
             w.ev[i][1] = "tunnelBuildResponse" /\ w.ev[i][2] = t /\ w.ev[i][3] = config[i]

\* The handler's tunnel ends BuildFailed, as it was otherwise, and nothing
\* else has changed; Tunnel::HandleTunnelBuildResponse has returned false
\* and no profile has an event.
FailedUncredited(msg, index, n, w1, w) ==
    LET t == replyTunnel
    IN /\ ~w1.ret /\ w1 = [World EXCEPT !.ret = FALSE]
       /\ w.ev = <<>>
       /\ w = [World EXCEPT !.ret = FALSE, !.tun[t].state = BuildFailed]
       /\ w.tun[t].hops = <<>> /\ w.tun[t].hasConfig

\* C23: when DecryptBuildResponseRecord of a hop's own record fails, the
\* tunnel ends BuildFailed and each hop identity gets one tunnelBuildResponse
\* event with the code read for it.
C23_DecryptFailureCredits == ResponsesWith(DecryptFailed, FailedAndCredited)

\* What the code does then: the tunnel ends BuildFailed and no hop has an
\* event.
DecryptFailureFails == ResponsesWith(DecryptFailed, FailedUncredited)

\* A response rejected at line 153 has been handled: its tunnel is
\* BuildFailed and no profile event was made.
C23_FailedUncredited ==
    /\ response.at = 153 /\ ~response.ret /\ response.ev = <<>>
    /\ tun[response.t].state = BuildFailed /\ tun[response.t].hasConfig

\* The record count is over MAX_NUM_RECORDS, the payload is shorter than the
\* records and the count byte, or some hop's recordIndex is not below the
\* record count.
Malformed(msg, index, n) ==
    \/ msg.num > MAX_NUM_RECORDS
    \/ msg.len < msg.num * RecordSize + 1
    \/ \E k \in 1..n : ~(index[k] < msg.num)

RejectedUncredited(msg, index, n, w1, w) ==
    RejectedAt(msg, index, n) # 0 /\ FailedUncredited(msg, index, n, w1, w)

\* C24: a malformed build response is rejected: HandleTunnelBuildResponse
\* returns false and makes no profile event, the hop list stays empty and
\* the config in place, the tunnel is not Established and nothing but its
\* state changes; the handler returns, and the worker's next lookup finds
\* the Pending tunnels as before.
C24_MalformedRejected ==
    /\ []ResponsesWith(Malformed, RejectedUncredited)
    /\ [](replyTunnel = NoTunnel =>
            \A msgID \in ReplyMsgIDs, kind \in {"inbound", "outbound"} : LookupOf(msgID, kind))
    /\ [][response' # response /\ response'.at \in {138, 143, 158} =>
            /\ replyTunnel' = NoTunnel
            /\ tun'[response'.t].state = BuildFailed
            /\ ~response'.ret /\ response'.ev = <<>>
            /\ UNCHANGED <<m_Tunnels, m_PendingInboundTunnels, m_PendingOutboundTunnels,
                           m_InboundTunnels, m_OutboundTunnels>>]_vars

\* A response whose hop index is out of range was rejected, its tunnel is
\* BuildFailed with its config, and the worker has taken up the tunnel of
\* the next message.
C24_Witness ==
    /\ response.at = 158 /\ ~response.ret /\ response.ev = <<>>
    /\ tun[response.t].state = BuildFailed /\ tun[response.t].hasConfig
    /\ tun[response.t].hops = <<>>
    /\ replyTunnel # NoTunnel /\ replyTunnel # response.t
    /\ tun[replyTunnel].state = BuildReplyReceived

(***************************************************************************)
(* C25: the maintenance schedule.                                          *)
(***************************************************************************)
Tasks == {"ManageTunnels", "ManageTunnelPools", "CleanUpMt"}

LastOf(k) ==
    IF k = "ManageTunnels" THEN lastTs
    ELSE IF k = "ManageTunnelPools" THEN lastPoolsTs ELSE lastMemoryPoolTs

IntervalOf(k) ==
    IF k = "ManageTunnels" THEN TUNNEL_MANAGE_INTERVAL
    ELSE IF k = "ManageTunnelPools" THEN TUNNEL_POOLS_MANAGE_INTERVAL
    ELSE TUNNEL_MEMORY_POOL_MANAGE_INTERVAL

\* The pass runs task k when online and due by the two comparisons of the
\* code, and then alone sets the task's last-run time, to ts.
RunsWhenDue(ts, online) ==
    \A k \in Tasks :
       /\ k \in ran' <=> /\ online
                         /\ \/ Minus(ts, LastOf(k)) >= IntervalOf(k)
                            \/ Plus(ts, IntervalOf(k)) < LastOf(k)
       /\ LastOf(k)' = IF k \in ran' THEN ts ELSE LastOf(k)
       /\ ~online => k \notin ran'

\* The consequences as claimed: a task that runs at a reading not below its
\* last run runs at least the interval after it, and a pass whose reading is
\* below that of the pass before runs every task.
ApartAndRunOnStepBack(ts, online) ==
    \A k \in Tasks :
       /\ k \in ran' /\ ts >= LastOf(k) => ts - LastOf(k) >= IntervalOf(k)
       /\ online /\ ts < schedTs => k \in ran'

\* C25 as claimed: a task runs when online and due, and then alone takes ts
\* as its last-run time; a task that runs at a reading not below its last
\* run runs at least the interval after it; a pass whose reading is below
\* that of the pass before runs every task; nothing runs offline.
C25_ScheduleAsClaimed ==
    [][\A ts \in ScheduleClock, online \in BOOLEAN :
          Maintain(ts, online) =>
            RunsWhenDue(ts, online) /\ ApartAndRunOnStepBack(ts, online)]_vars

\* The same in numbers without wrap-around.
RunsWhenBelowOrApart(ts, online) ==
    \A k \in Tasks :
       /\ k \in ran' <=>
            /\ online
            /\ \/ ts < LastOf(k)
               \/ ts - LastOf(k) >= IntervalOf(k)
               \/ /\ ts + IntervalOf(k) >= Modulus
                  /\ ts + IntervalOf(k) - Modulus < LastOf(k)
       /\ ( /\ k \in ran' /\ ts >= LastOf(k)
            /\ ts + IntervalOf(k) < Modulus ) => ts - LastOf(k) >= IntervalOf(k)
       /\ online /\ ts < LastOf(k) => k \in ran'

\* C25: a task runs when online and due, and then alone takes ts as its
\* last-run time, whatever the other two do; nothing runs offline.  In
\* numbers without wrap-around: the task runs when the clock reads less
\* than its last run, or the interval or more has passed since, or ts +
\* interval wraps to less than the last run; so a task that runs at a
\* reading not below its last run, the reading more than the interval short
\* of the wrap, runs at least the interval after it, and a clock stepping
\* back runs the tasks whose last run it steps below.
C25_Schedule ==
    [][\A ts \in ScheduleClock, online \in BOOLEAN :
          Maintain(ts, online) =>
            RunsWhenDue(ts, online) /\ RunsWhenBelowOrApart(ts, online)]_vars

\* The clock stepped back from 115 to 102: the two tasks that last ran at
\* 115 ran again, and the one that last ran at 100 did not.
C25_Witness ==
    /\ wasOnline /\ schedPrevTs = 115 /\ schedTs = 102
    /\ ran = {"ManageTunnels", "ManageTunnelPools"}
    /\ lastTs = 102 /\ lastPoolsTs = 102 /\ lastMemoryPoolTs = 100


(***************************************************************************)
(* C26: the one-hop inbound build of ManageInboundTunnels.                 *)
(***************************************************************************)
\* What a run with a router at hand may draw: the router, the reply message
\* id and the tunnel ids.
RouterInputs ==
    {[router |-> r, replyMsgID |-> m, tunnelID |-> a, tunnelID2 |-> b] :
       r \in FallbackRouters \ {NullIdent}, m \in ReplyMsgIDs,
       a \in TunnelIDs, b \in OutboundTunnelIDs}

\* From w to r one build of a one-hop inbound tunnel was started: one new
\* Pending inbound tunnel without a pool, its config the router drawn, in the
\* pending-inbound map under the id drawn, its build message on its way;
\* the lists and the pending-outbound map as they were.
OneHopInboundStarted(w, r, in) ==
    \E t \in FreeObjs(w) :
       /\ r.tun[t].kind = "inbound" /\ r.tun[t].state = Pending
       /\ r.tun[t].config = <<in.router>> /\ r.tun[t].pool = "none"
       /\ r.tun[t].onDrop
       /\ r.pin = MapAssign(w.pin, in.replyMsgID, t)
       /\ \A u \in Obj \ {t} : r.tun[u] = w.tun[u]
       /\ r.inb = w.inb /\ r.outb = w.outb /\ r.pout = w.pout

\* From w to r no build was started: the pending maps are as they were and
\* no tunnel with hops was constructed.
NoBuildStarted(w, r) ==
    /\ r.pin = w.pin /\ r.pout = w.pout
    /\ \A t \in FreeObjs(w) : r.tun[t].kind \notin {"inbound", "outbound"}

MaxBytes == 2
ByteCounts == [Obj -> 0..MaxBytes]

EstablishedInbound == {u \in Range(m_InboundTunnels) : IsEstablished(tun[u])}

\* C27: with every content of the inbound list and every received-byte
\* count, GetNextInboundTunnel returns null exactly when no inbound tunnel is
\* Established, and otherwise an Established inbound tunnel whose count is at
\* most that of every other Established inbound tunnel; a tunnel in another
\* state is never returned, whatever its count.
C27_LeastLoadedEstablished ==
    \A bytes \in ByteCounts :
       LET t == GetNextInboundTunnel(m_InboundTunnels, tun, bytes)
       IN /\ t \in Obj \cup {NoTunnel}
          /\ (t = NoTunnel) <=> (EstablishedInbound = {})
          /\ t # NoTunnel =>
                /\ t \in EstablishedInbound
                /\ \A u \in EstablishedInbound : bytes[t] <= bytes[u]

\* The inbound list holds an Established tunnel and a Failed or Expiring
\* one with fewer received bytes: the Established one is returned.
C27_Witness ==
    \E t, u \in Range(m_InboundTunnels) :
       /\ IsEstablished(tun[t])
       /\ tun[u].state \in {Expiring, Failed}
       /\ GetNextInboundTunnel(m_InboundTunnels, tun, [NoBytes EXCEPT ![t] = MaxBytes]) = t

\* Two Established inbound tunnels, the later one in the list with fewer
\* received bytes: the later one is returned.
TwoEstablishedCompared ==
    \E t, u \in EstablishedInbound :
       /\ t # u
       /\ m_InboundTunnels[1] = t
       /\ GetNextInboundTunnel(m_InboundTunnels, tun, [NoBytes EXCEPT ![t] = 1]) = u


(***************************************************************************)
(* C28: the onDrop closure of the build message against the worker.        *)
(***************************************************************************)
DroppedTunnels == {p[1] : p \in dropped}

InPendingMap(w, t) == \E p \in w.pin \cup w.pout : p[2] = t

\* w without the pending entries of t
WithoutPending(w, t) ==
    [w EXCEPT !.pin = {p \in w.pin : p[2] # t}, !.pout = {p \in w.pout : p[2] # t}]

\* The step that drops a tunnel's build message leaves it BuildFailed.
DroppedMarkedFailed ==
    [][\A p \in dropped' \ dropped :
          tun'[p[1]].kind # "destroyed" => tun'[p[1]].state = BuildFailed]_vars

\* The tunnels of D are not Established.
NeverEstablished(D) ==
    \A t \in D : Constructed(t) => tun[t].state # Established

\* This step puts no tunnel of D into the inbound or the outbound list.
NeverListed(D) ==
    \A t \in D : Constructed(t) /\ ~InList(t) => ~InList(t)'

\* The pending sweep, at every clock reading, erases each pending tunnel of
\* D and counts one failure and no success for it: its counters are those of
\* the sweep over the other entries, with one failure more.
ErasedAndCounted(D) ==
    replyTunnel = NoTunnel =>
      \A t \in D :
         (Constructed(t) /\ InPendingMap(World, t)) =>
           \A ts \in ClockValues :
              LET r == ManagePendingTunnels(World, ts)
                  r0 == ManagePendingTunnels(WithoutPending(World, t), ts)
              IN /\ ~InPendingMap(r, t)
                 /\ r.fail = r0.fail + 1
                 /\ r.succ = r0.succ

\* C28: whenever the transport drops a tunnel's build message, whatever the
\* worker is doing, the tunnel is marked BuildFailed, is never Established
\* afterwards nor put into the inbound or outbound list by a build reply, and
\* the next pending sweep erases it, counting one failure and no success
\* for it.
C28_DroppedStaysFailed ==
    /\ DroppedMarkedFailed
    /\ []NeverEstablished(DroppedTunnels)
    /\ [][NeverListed(DroppedTunnels)]_vars
    /\ []ErasedAndCounted(DroppedTunnels)

\* The tunnels whose build message was dropped while they were Pending,
\* before any reply was taken up.
DroppedWhilePending == {p[1] : p \in {q \in dropped : q[2] = Pending}}

\* The same for the drops that find the tunnel Pending.
DroppedWhilePendingStaysFailed ==
    /\ DroppedMarkedFailed
    /\ []NeverEstablished(DroppedWhilePending)
    /\ [][NeverListed(DroppedWhilePending)]_vars
    /\ []ErasedAndCounted(DroppedWhilePending)

\* The closure ran between the two halves of a reply handler, which went on
\* to accept the reply: the tunnel whose build message was dropped is
\* Established and in its list, and the next sweep will count a success.
C28_EstablishedAfterDrop ==
    \E t \in Obj :
       /\ <<t, BuildReplyReceived>> \in dropped
       /\ replyTunnel = NoTunnel
       /\ tun[t].state = Established /\ InList(t)
       /\ InPendingMap(World, t)
       /\ \A ts \in ClockValues :
             ManagePendingTunnels(World, ts).succ = m_TotalNumSuccesiveTunnelCreations + 1

====
